---------------------------- MODULE Spec2Model ----------------------------
(***************************************************************************)
(* AnyLink (DanielcoderX/anylink): a gateway bridging WebSocket and QUIC   *)
(* clients to backend TCP services.                                        *)
(*                                                                         *)
(* Strings are tuples of one-character strings, so that the string code    *)
(* of the target authorizer (strings.Contains, net.SplitHostPort,          *)
(* regexp.QuoteMeta, strings.ReplaceAll, net.ParseCIDR) is computed, not   *)
(* assumed.                                                                *)
(***************************************************************************)
EXTENDS Integers, Sequences, FiniteSets, TLC

(***************************************************************************)
(* Bounds of the model.                                                    *)
(***************************************************************************)
\* longest allow-list drawn as an input of the authorizer
MaxRules == 2

(***************************************************************************)
(* String helpers (Go's strings package and net's parsers).                *)
(***************************************************************************)
Digits == {"0", "1", "2", "3", "4", "5", "6", "7", "8", "9"}

DigitVal(c) ==
    CASE c = "0" -> 0 [] c = "1" -> 1 [] c = "2" -> 2 [] c = "3" -> 3
      [] c = "4" -> 4 [] c = "5" -> 5 [] c = "6" -> 6 [] c = "7" -> 7
      [] c = "8" -> 8 [] c = "9" -> 9 [] OTHER -> 0

\* strings.Contains(s, c) for a one-character c
Contains(s, c) == \E i \in 1..Len(s) : s[i] = c

\* strings.ContainsAny(s, chars)
ContainsAny(s, chars) == \E i \in 1..Len(s) : s[i] \in chars

\* strings.IndexByte: the first index of c in s, 0 when absent
IndexByte(s, c) ==
    IF Contains(s, c)
    THEN CHOOSE i \in 1..Len(s) : s[i] = c /\ \A j \in 1..(i-1) : s[j] # c
    ELSE 0

\* strings.LastIndexByte: the last index of c in s, 0 when absent
LastIndexByte(s, c) ==
    IF Contains(s, c)
    THEN CHOOSE i \in 1..Len(s) : s[i] = c /\ \A j \in (i+1)..Len(s) : s[j] # c
    ELSE 0

\* a decimal number: -1 unless s is a non-empty string of digits
RECURSIVE DecValue(_)
DecValue(s) ==
    IF Len(s) = 0 THEN 0
    ELSE DecValue(SubSeq(s, 1, Len(s) - 1)) * 10 + DigitVal(s[Len(s)])

ParseDec(s) ==
    IF Len(s) = 0 \/ Len(s) > 6 \/ \E i \in 1..Len(s) : s[i] \notin Digits
    THEN -1
    ELSE DecValue(s)

\* the fields of s between the dots
RECURSIVE SplitDots(_)
SplitDots(s) ==
    LET i == IndexByte(s, ".")
    IN  IF i = 0 THEN <<s>>
        ELSE <<SubSeq(s, 1, i - 1)>> \o SplitDots(SubSeq(s, i + 1, Len(s)))

\* one field of a dotted IPv4 address: 1 to 3 digits, no leading zero, <= 255
OctetOK(f) ==
    /\ Len(f) \in 1..3
    /\ ParseDec(f) \in 0..255
    /\ (Len(f) > 1 => f[1] # "0")

\* net.ParseIP for dotted IPv4: the four octets, <<>> for nil
ParseIP(host) ==
    LET fs == SplitDots(host)
    IN  IF Len(fs) = 4 /\ \A i \in 1..4 : OctetOK(fs[i])
        THEN [i \in 1..4 |-> ParseDec(fs[i])]
        ELSE <<>>

NilNet == [ip |-> <<>>, bits |-> -1]

Pow2(n) ==
    CASE n = 0 -> 1 [] n = 1 -> 2 [] n = 2 -> 4 [] n = 3 -> 8 [] n = 4 -> 16
      [] n = 5 -> 32 [] n = 6 -> 64 [] n = 7 -> 128 [] n = 8 -> 256
      [] n = 9 -> 512 [] n = 10 -> 1024 [] n = 11 -> 2048 [] n = 12 -> 4096
      [] n = 13 -> 8192 [] n = 14 -> 16384 [] n = 15 -> 32768
      [] OTHER -> 65536

\* the leading `bits` bits of an address, as the pair (high half, low half)
Prefix(ip, bits) ==
    LET hi == ip[1] * 256 + ip[2]
        lo == ip[3] * 256 + ip[4]
    IN  IF bits <= 16
        THEN <<hi \div Pow2(16 - bits), 0>>
        ELSE <<hi, lo \div Pow2(32 - bits)>>

\* net.ParseCIDR: [net, err]; the address is split off at the first '/'
ParseCIDR(s) ==
    LET i    == IndexByte(s, "/")
        ip   == ParseIP(SubSeq(s, 1, i - 1))
        bits == ParseDec(SubSeq(s, i + 1, Len(s)))
    IN  IF i = 0 \/ ip = <<>> \/ bits < 0 \/ bits > 32
        THEN [net |-> NilNet, err |-> TRUE]
        ELSE [net |-> [ip |-> ip, bits |-> bits], err |-> FALSE]

\* (*net.IPNet).Contains
NetContains(n, ip) == Prefix(n.ip, n.bits) = Prefix(ip, n.bits)

\* net.SplitHostPort, host only (bracket-free input): "" when the target has
\* no colon (missing port) or more than one (too many colons)
SplitHostPort(target) ==
    LET i == LastIndexByte(target, ":")
    IN  IF i = 0 THEN <<>>
        ELSE IF Contains(SubSeq(target, 1, i - 1), ":") THEN <<>>
        ELSE SubSeq(target, 1, i - 1)

(***************************************************************************)
(* Regular expressions, as far as compileRules builds them.                *)
(***************************************************************************)
RegexSpecial == {"\\", ".", "+", "*", "?", "(", ")", "|", "[", "]", "{", "}", "^", "$"}

\* regexp.QuoteMeta: a backslash before every special character
RECURSIVE QuoteMeta(_)
QuoteMeta(s) ==
    IF Len(s) = 0 THEN <<>>
    ELSE (IF s[1] \in RegexSpecial THEN <<"\\", s[1]>> ELSE <<s[1]>>)
         \o QuoteMeta(Tail(s))

\* strings.ReplaceAll(s, `\*`, ".*"): left to right, non-overlapping
RECURSIVE ReplaceEscapedStar(_)
ReplaceEscapedStar(s) ==
    IF Len(s) = 0 THEN <<>>
    ELSE IF Len(s) >= 2 /\ s[1] = "\\" /\ s[2] = "*"
         THEN <<".", "*">> \o ReplaceEscapedStar(SubSeq(s, 3, Len(s)))
         ELSE <<s[1]>> \o ReplaceEscapedStar(Tail(s))

\* the pattern's tokens between ^ and $: a literal, any character, or any string
RECURSIVE Tokens(_)
Tokens(p) ==
    IF Len(p) = 0 THEN <<>>
    ELSE IF p[1] = "\\" /\ Len(p) >= 2
         THEN <<[k |-> "lit", c |-> p[2]]>> \o Tokens(SubSeq(p, 3, Len(p)))
    ELSE IF p[1] = "." /\ Len(p) >= 2 /\ p[2] = "*"
         THEN <<[k |-> "star", c |-> "."]>> \o Tokens(SubSeq(p, 3, Len(p)))
    ELSE IF p[1] = "."
         THEN <<[k |-> "any", c |-> "."]>> \o Tokens(Tail(p))
    ELSE <<[k |-> "lit", c |-> p[1]]>> \o Tokens(Tail(p))

RECURSIVE TokMatch(_, _)
TokMatch(ts, s) ==
    IF Len(ts) = 0 THEN Len(s) = 0
    ELSE IF ts[1].k = "star"
         THEN \E n \in 0..Len(s) : TokMatch(Tail(ts), SubSeq(s, n + 1, Len(s)))
    ELSE IF Len(s) = 0 THEN FALSE
    ELSE IF ts[1].k = "any" THEN TokMatch(Tail(ts), Tail(s))
    ELSE ts[1].c = s[1] /\ TokMatch(Tail(ts), Tail(s))

\* (*regexp.Regexp).MatchString for a pattern "^...$"
MatchString(pattern, s) ==
    TokMatch(Tokens(SubSeq(pattern, 2, Len(pattern) - 1)), s)


(***************************************************************************)
(* Target authorizer: compileRules and isAllowedEnhanced.                  *)
(***************************************************************************)
NilRegex == <<>>

\* the pattern compiled for a wildcard entry: "^" + QuoteMeta(t) + "$" with
\* every `\*` replaced by ".*"
WildcardPattern(t) == ReplaceEscapedStar(<<"^">> \o QuoteMeta(t) \o <<"$">>)

\* one iteration of compileRules' loop: the rule of entry t, or an error
CompileRule(t) ==
    IF Contains(t, "/")
    THEN LET c == ParseCIDR(t)
         IN  [Raw |-> t, Regex |-> NilRegex, CIDRNet |-> c.net,
              IsDomain |-> FALSE, err |-> c.err]
    ELSE IF ContainsAny(t, {"*", "?"})
    THEN [Raw |-> t, Regex |-> WildcardPattern(t),
          CIDRNet |-> NilNet, IsDomain |-> TRUE, err |-> FALSE]
    ELSE IF Contains(t, ":")
    THEN [Raw |-> t, Regex |-> NilRegex, CIDRNet |-> NilNet,
          IsDomain |-> FALSE, err |-> FALSE]
    ELSE [Raw |-> t, Regex |-> NilRegex, CIDRNet |-> NilNet,
          IsDomain |-> TRUE, err |-> FALSE]

\* compileRules: [rules, err]; the first entry that fails gives (nil, err)
compileRules(list) ==
    IF \E i \in 1..Len(list) : CompileRule(list[i]).err
    THEN [rules |-> <<>>, err |-> TRUE]
    ELSE [rules |-> [i \in 1..Len(list) |->
                        [Raw      |-> CompileRule(list[i]).Raw,
                         Regex    |-> CompileRule(list[i]).Regex,
                         CIDRNet  |-> CompileRule(list[i]).CIDRNet,
                         IsDomain |-> CompileRule(list[i]).IsDomain]],
          err |-> FALSE]

\* RuleMatches with the domain rule compared to the whole target
RuleMatchesPortNotIgnored(r, host, target) ==
    IF r.CIDRNet # NilNet
    THEN ParseIP(host) # <<>> /\ NetContains(r.CIDRNet, ParseIP(host))
    ELSE IF r.Regex # NilRegex
    THEN MatchString(r.Regex, target)
    ELSE target = r.Raw

\* the body of isAllowedEnhanced's loop for rule r
RuleMatches(r, host, target) ==
    IF r.CIDRNet # NilNet
    THEN ParseIP(host) # <<>> /\ NetContains(r.CIDRNet, ParseIP(host))
    ELSE IF r.Regex # NilRegex
    THEN MatchString(r.Regex, target)
    ELSE IF r.IsDomain
    THEN host = r.Raw
    ELSE target = r.Raw

\* AllowedFrom deciding by the last rule alone
AllowedFromLastOnly(rules, i, host, target) ==
    RuleMatches(rules[Len(rules)], host, target)

\* isAllowedEnhanced's loop from rule i on, returning at the first match
RECURSIVE AllowedFrom(_, _, _, _)
AllowedFrom(rules, i, host, target) ==
    IF i > Len(rules) THEN FALSE
    ELSE IF RuleMatches(rules[i], host, target) THEN TRUE
    ELSE AllowedFrom(rules, i + 1, host, target)

isAllowedEnhanced(rules, target) ==
    IF Len(rules) = 0 THEN TRUE
    ELSE AllowedFrom(rules, 1, SplitHostPort(target), target)

(***************************************************************************)
(* Allow-list entries and targets used as inputs.                          *)
(***************************************************************************)
E_Exact == <<"1", "0", ".", "0", ".", "0", ".", "1", ":", "2", "2">>  \* "10.0.0.1:22"
E_Cidr == <<"1", "0", ".", "0", ".", "0", ".", "0", "/", "8">>  \* "10.0.0.0/8"
E_Cidr24 == <<"1", "0", ".", "0", ".", "1", ".", "0", "/", "2", "4">>  \* "10.0.1.0/24"
E_BadCidr == <<"1", "0", ".", "0", ".", "0", ".", "0", "/", "x">>  \* "10.0.0.0/x"
E_Star == <<"*", ".", "i", "o", ":", "8", "0">>  \* "*.io:80"
E_Quest == <<"a", "?", ".", "i", "o", ":", "8", "0">>  \* "a?.io:80"
E_Domain == <<"d", "b", ".", "i", "o">>  \* "db.io"
E_IPDomain == <<"1", "0", ".", "0", ".", "0", ".", "1">>  \* "10.0.0.1"
T_SSH == <<"1", "0", ".", "0", ".", "0", ".", "1", ":", "2", "2">>  \* "10.0.0.1:22"
T_Net == <<"1", "0", ".", "0", ".", "1", ".", "7", ":", "8", "0">>  \* "10.0.1.7:80"
T_Out == <<"1", "1", ".", "0", ".", "0", ".", "1", ":", "2", "2">>  \* "11.0.0.1:22"
T_Db80 == <<"d", "b", ".", "i", "o", ":", "8", "0">>  \* "db.io:80"
T_Db22 == <<"d", "b", ".", "i", "o", ":", "2", "2">>  \* "db.io:22"
T_Ab == <<"a", "b", ".", "i", "o", ":", "8", "0">>  \* "ab.io:80"
T_Lit == <<"a", "?", ".", "i", "o", ":", "8", "0">>  \* "a?.io:80"
T_NoPort == <<"d", "b", ".", "i", "o">>  \* "db.io"
T_Colons == <<"a", ":", "b", ":", "8", "0">>  \* "a:b:80"

AuthEntries ==
    {E_Exact, E_Cidr, E_Cidr24, E_BadCidr, E_Star, E_Quest, E_Domain, E_IPDomain}

AuthTargets ==
    {T_SSH, T_Net, T_Out, T_Db80, T_Db22, T_Ab, T_Lit, T_NoPort, T_Colons}

\* every list of at most n entries
RECURSIVE ListsUpTo(_, _)
ListsUpTo(S, n) ==
    IF n = 0 THEN {<<>>}
    ELSE ListsUpTo(S, n - 1)
         \cup {Append(l, e) : l \in {m \in ListsUpTo(S, n - 1) : Len(m) = n - 1},
                              e \in S}

AuthLists == ListsUpTo(AuthEntries, MaxRules)


(***************************************************************************)
(* Inputs of the server: configurations, requests, pool registrations.     *)
(***************************************************************************)
\* largest tcp_pool_size drawn as configuration
MaxPoolSize == 1
\* WebSocket requests served (one handler goroutine each)
NumHandlers == 2
\* TCP connections dialed by the pool
MaxConns == 2
\* messages the WebSocket clients send, in all
MaxMsgs == 2
\* bytes the backends send, in all
MaxBytes == 2
\* calls of AddTargets
MaxAdds == 1

\* width of the round-robin counter (uint32 in the source, narrowed here)
CounterBits == 3

Handlers == 1..NumHandlers
ConnIds == 1..MaxConns
NoConn == 0

AllowLists == {<<>>, <<E_Exact, E_Domain>>, <<E_Exact, E_BadCidr>>}

ConfigSet ==
    {[AllowedTargets |-> l, TCPPoolSize |-> n] : l \in AllowLists, n \in 0..MaxPoolSize}

\* an HTTP request: URL.Path and the "target" query parameter
Requests ==
    { [path |-> <<"/">> \o T_SSH, query |-> <<>>],
      [path |-> <<"/">> \o T_Out, query |-> <<>>],
      [path |-> <<"/">> \o T_NoPort, query |-> T_Db80],
      [path |-> <<"/">>, query |-> <<>>] }

\* keys of the pool's maps
PoolAddrs == {T_SSH, T_Out, T_Db80, T_Net}

Registrations ==
    { [logical |-> T_SSH, targets |-> <<T_SSH>>],
      [logical |-> T_Db80, targets |-> <<T_Net, T_SSH>>] }

\* kinds of WebSocket message a client sends: a binary frame of stream 1, a
\* text message, a binary frame of another stream, a binary message shorter
\* than its header announces
MsgKinds == {"data", "text", "other", "short"}

\* QUIC connections accepted
NumSessions == 1
\* streams accepted per QUIC connection
NumStreams == 2
\* chunks the QUIC clients write, in all
MaxChunks == 3
\* bytes the backends of QUIC bridges send, in all
MaxQBytes == 1
\* pending writes one Read of a QUIC stream may return together
MaxCoalesce == 2

QSessions == 1..NumSessions
\* sessions of the reaper's specification, several of them from one address
ReaperSessions == 2
SessionIds == 1..ReaperSessions
QStreams == 1..NumStreams
QAddrs == {"198.51.100.7:5000"}

\* what a client may write as the first chunk of a stream
QTargets == {T_SSH, T_Out}

DigitChar == <<"1", "2", "3", "4", "5", "6", "7", "8", "9">>

\* the k-th chunk of payload a client writes on a stream
DataChunk(k) == <<"#", DigitChar[k]>>

\* the reaper's ticker period and idle limit, in seconds
ScanPeriod == 10
IdleLimit == 30
\* the clock advances in steps of TickStep seconds up to MaxTime
TickStep == 5
MaxTime == 50
\* no CloseWithError yet
NoCode == -1
\* the configured read_timeout, in seconds
ReadTimeout == 20
\* certificate rotations
MaxRotations == 2
\* calls of the MetricsManager
MaxCalls == 2

SessionNone ==
    [pc |-> "none", addr |-> "", accepted |-> 0, peerClosed |-> FALSE,
     closedByServer |-> FALSE, lastActive |-> 0, reaped |-> FALSE,
     closeCode |-> NoCode, closeReason |-> ""]

QBridgeNone ==
    [state |-> "none", q2t |-> "none", t2q |-> "none", q2tExit |-> "",
     target |-> <<>>, dialTarget |-> <<>>, tcpConn |-> "nil",
     dialed |-> FALSE, dialFailed |-> FALSE,
     in |-> <<>>, sent |-> 0, fin |-> FALSE,
     readChunks |-> <<>>, fwd |-> <<>>, BytesReceived |-> 0, BytesSent |-> 0,
     tin |-> <<>>, tsent |-> 0, tPeerClosed |-> FALSE, tcpClosed |-> FALSE,
     qOut |-> <<>>, reset |-> FALSE, inMap |-> FALSE, cleanup |-> "none",
     lastMove |-> 0]

VARIABLES
    cfg,    \* config.Config given to server.New
    srv,    \* Server: [state, rules]
    wsh,    \* the WebSocket handler goroutines and their bridges
    tcp,    \* TCP connections dialed by the pool
    pool,   \* bridge.TCPPool: [conns, backends, registered, counters, dials]
    env,    \* what the peers may still do: [reqs, msgs, bytes, adds]
    auth,   \* the authorizer run on one input: [pc, list, target, rules, err, allowed]
    qs,     \* QUIC sessions (handleQUICSession goroutines)
    table,  \* Server.sessions: remote address -> session (0: no entry)
    qb,     \* QUIC bridges, by session and stream
    qenv,   \* what the QUIC peers may still do: [chunks, bytes]
    pu,     \* direct callers of the pool: [wide, gets, held, picks, op, panicked]
    cl,     \* a direct caller of Bridge.Close: [phase, returned, slot, pre, post]
    clock,  \* time in seconds: [now, nextScan]
    cp,     \* config.Parse run on one command line and file: [pc, cli, file, out]
    tlsm,   \* TLSManager and the listeners' TLS: [cert, gen, tick, loop, stopped, conf, hs]
    mx      \* mutexes held by each task, and the MetricsManager: [held, pc, op, streams, todo, level, calls]

vars == <<cfg, srv, wsh, tcp, pool, env, auth, qs, table, qb, qenv, pu, cl, clock, cp, tlsm, mx>>

\* the Close caller and the clock
aux == <<cl, clock, cp, tlsm, mx>>

\* the WebSocket side with its pool
wsVars == <<wsh, tcp, pool, env>>

\* the QUIC side
quicVars == <<qs, table, qb, qenv>>

\* what the WebSocket side leaves alone
nonWS == <<auth, quicVars, pu, aux>>

\* what the QUIC side leaves alone
nonQUIC == <<auth, wsVars, pu, aux>>

(***************************************************************************)
(* State after construction.                                               *)
(***************************************************************************)
AuthIdle ==
    [pc |-> "off", list |-> <<>>, target |-> <<>>, rules |-> <<>>,
     err |-> FALSE, allowed |-> FALSE]

HandlerIdle ==
    [pc |-> "idle", req |-> [path |-> <<>>, query |-> <<>>], target |-> <<>>,
     resp |-> "none", upgraded |-> FALSE,
     poolAsked |-> FALSE, backend |-> <<>>, conn |-> NoConn,
     close1011 |-> FALSE, dialFailed |-> FALSE,
     t2w |-> "none", w2t |-> "none", t2wExit |-> "", w2tExit |-> "",
     BytesSent |-> 0, BytesReceived |-> 0,
     wsIn |-> <<>>, wsSent |-> 0, clientClosed |-> FALSE, wsClosed |-> FALSE,
     wsRead |-> <<>>, tcpWritten |-> <<>>, tcpRead |-> <<>>, wsOut |-> <<>>,
     deadline |-> 0, wsLastRead |-> 0, tcpLastRead |-> 0,
     wmu |-> "free", writing |-> {}, pend |-> <<>>, ctl |-> FALSE, pongs |-> 0]

ConnNone ==
    [backend |-> <<>>, dialed |-> FALSE, open |-> FALSE, peerClosed |-> FALSE,
     in |-> <<>>, sent |-> 0, discarded |-> FALSE]

\* nobody calls the pool directly
PoolUsersNone ==
    [wide |-> TRUE, gets |-> 0, held |-> {}, picks |-> {},
     op |-> [kind |-> "none", key |-> <<>>, conn |-> NoConn], panicked |-> FALSE]

\* NewTCPPool
PoolNew ==
    [conns |-> [a \in PoolAddrs |-> <<>>],
     backends |-> [a \in PoolAddrs |-> <<>>],
     registered |-> {},
     counters |-> [a \in PoolAddrs |-> 0],
     dials |-> 0]

CloserNone == [phase |-> "idle", returned |-> 0, slot |-> <<>>, pre |-> <<>>, post |-> <<>>]

\* nobody calls Close from outside
NoCloser == cl = CloserNone

\* the listeners that serve TLS
Listeners == {"wss", "quic"}

\* no certificate, no handshake
NoCert == 0
NoHandshake == [state |-> "none", cert |-> NoCert, current |-> NoCert]

\* NewTLSManager: the first certificate is generated, the ticker created and
\* rotationLoop started
NewTLSManager ==
    [cert |-> 1, gen |-> 1, tick |-> FALSE, loop |-> "wait", stopped |-> FALSE,
     conf |-> [l \in Listeners |-> NoCert],
     hs |-> [l \in Listeners |-> NoHandshake]]

\* the tasks that take mutexes: two callers of the MetricsManager, two callers
\* of the pool, the idle reaper, and a caller of logger.SetLevel
MetricsTasks == {"m1", "m2"}
PoolTasks == {"p1", "p2"}
LockTasks == MetricsTasks \cup PoolTasks \cup {"reaper", "main"}

\* no call of the pool
NoCall == [key |-> <<>>, conn |-> NoConn]

\* the ids under which streams are registered; each names its own mutex
StreamNames == {"s1"}

NoOp == [kind |-> "none", id |-> "", sent |-> 0, recv |-> 0, timeout |-> 0]

StreamNone == [present |-> FALSE, BytesSent |-> 0, BytesReceived |-> 0, LastActive |-> 0]

\* NewMetricsManager, and no mutex held
NewMetricsManager ==
    [held |-> [t \in LockTasks |-> <<>>],
     pc |-> [t \in LockTasks |-> "idle"],
     op |-> [t \in LockTasks |-> NoOp],
     streams |-> [id \in StreamNames |-> StreamNone],
     todo |-> [t \in LockTasks |-> {}],
     cur |-> [t \in LockTasks |-> ""],
     now |-> [t \in LockTasks |-> 0],
     level |-> "info",
     calls |-> 0,
     call |-> [t \in PoolTasks |-> NoCall]]

\* the reaper's ticker is created by Start's goroutine at time 0
ClockStart == clock = [now |-> 0, nextScan |-> ScanPeriod]

\* server.New(cfg)
ServerNew ==
    /\ srv = [state |-> "new", rules |-> <<>>]
    /\ wsh = [h \in Handlers |-> HandlerIdle]
    /\ tcp = [c \in ConnIds |-> ConnNone]
    /\ pool = PoolNew
    /\ qs = [s \in SessionIds |-> SessionNone]
    /\ table = [a \in QAddrs |-> 0]
    /\ qb = [s \in SessionIds |-> [k \in QStreams |-> QBridgeNone]]
    /\ NoCloser
    /\ ClockStart
    /\ tlsm = NewTLSManager
    /\ cp = [pc |-> "idle"]
    /\ mx = NewMetricsManager

NoQUICPeers == qenv = [chunks |-> 0, bytes |-> 0]

NoPoolUsers == pu = PoolUsersNone

Init ==
    /\ cfg \in ConfigSet
    /\ ServerNew
    /\ env = [reqs |-> NumHandlers, msgs |-> 0, bytes |-> 0, adds |-> MaxAdds]
    /\ NoQUICPeers
    /\ NoPoolUsers
    /\ auth = AuthIdle

\* one WebSocket session whose peers send data
InitBridge ==
    /\ cfg = [AllowedTargets |-> <<>>, TCPPoolSize |-> 1]
    /\ ServerNew
    /\ env = [reqs |-> 1, msgs |-> MaxMsgs, bytes |-> MaxBytes, adds |-> MaxAdds]
    /\ NoQUICPeers
    /\ NoPoolUsers
    /\ auth = AuthIdle

\* the QUIC side alone
InitQUIC ==
    /\ cfg = [AllowedTargets |-> <<E_Exact, E_Domain>>, TCPPoolSize |-> 0]
    /\ ServerNew
    /\ env = [reqs |-> 0, msgs |-> 0, bytes |-> 0, adds |-> 0]
    /\ qenv = [chunks |-> MaxChunks, bytes |-> MaxQBytes]
    /\ NoPoolUsers
    /\ auth = AuthIdle

(***************************************************************************)
(* TLSManager: rotationLoop, GetTLSConfig, Stop; and TLS handshakes.       *)
(***************************************************************************)
\* GetTLSConfig: a tls.Config holding a copy of the certificate of the moment
GetTLSConfig == tlsm.cert

\* the rotation ticker fires; its channel holds one tick
TLSTick ==
    /\ ~tlsm.stopped
    /\ ~tlsm.tick
    /\ tlsm.gen <= MaxRotations
    /\ tlsm' = [tlsm EXCEPT !.tick = TRUE]
    /\ UNCHANGED <<cfg, srv, wsVars, quicVars, auth, pu, cl, clock, cp, mx>>

\* rotationLoop receives a tick
TLSReceive ==
    /\ tlsm.loop = "wait"
    /\ tlsm.tick
    /\ tlsm' = [tlsm EXCEPT !.tick = FALSE, !.loop = "gen"]
    /\ UNCHANGED <<cfg, srv, wsVars, quicVars, auth, pu, cl, clock, cp, mx>>

\* generateSelfSignedCert returns; on success t.cert is assigned under t.mu
TLSRotate(ok) ==
    /\ tlsm.loop = "gen"
    /\ tlsm' = IF ok
               THEN [tlsm EXCEPT !.loop = "wait", !.cert = tlsm.gen + 1,
                                 !.gen = @ + 1]
               ELSE [tlsm EXCEPT !.loop = "wait"]
    /\ UNCHANGED <<cfg, srv, wsVars, quicVars, auth, pu, cl, clock, cp, mx>>

\* Stop: rotateTicker.Stop().  The ticker fires no more; a tick already in the
\* channel stays there or not, by the runtime's timer implementation
TLSStop(drained) ==
    /\ ~tlsm.stopped
    /\ tlsm' = [tlsm EXCEPT !.stopped = TRUE,
                            !.tick = IF drained THEN FALSE ELSE @]
    /\ UNCHANGED <<cfg, srv, wsVars, quicVars, auth, pu, cl, clock, cp, mx>>

\* a client starts a TLS handshake with listener l: the server answers with
\* the certificate of the tls.Config the listener was given
HandshakeStart(l) ==
    /\ srv.state = "serving"
    /\ tlsm.hs[l].state # "inflight"
    /\ tlsm' = [tlsm EXCEPT !.hs[l] = [state |-> "inflight",
                                       cert |-> tlsm.conf[l],
                                       current |-> tlsm.cert]]
    /\ UNCHANGED <<cfg, srv, wsVars, quicVars, auth, pu, cl, clock, cp, mx>>

HandshakeDone(l) ==
    /\ tlsm.hs[l].state = "inflight"
    /\ tlsm' = [tlsm EXCEPT !.hs[l].state = "done"]
    /\ UNCHANGED <<cfg, srv, wsVars, quicVars, auth, pu, cl, clock, cp, mx>>

(***************************************************************************)
(* Server.Start: the rules are compiled, the compile error is dropped.     *)
(***************************************************************************)
Start ==
    /\ srv.state = "new"
    /\ srv' = [state |-> "serving", rules |-> compileRules(cfg.AllowedTargets).rules]
    /\ tlsm' = [tlsm EXCEPT !.conf = [l \in Listeners |-> GetTLSConfig]]
    /\ UNCHANGED <<cfg, wsVars, quicVars, auth, pu, cl, clock, cp, mx>>

(***************************************************************************)
(* TCP pool: AddTargets, Get (critical section, then dial), Put.           *)
(***************************************************************************)
AddTargets(logical, targets) ==
    /\ env.adds > 0
    /\ pool' = [pool EXCEPT !.backends[logical] = targets,
                            !.registered = @ \cup {logical},
                            !.counters[logical] = 0]
    /\ env' = [env EXCEPT !.adds = @ - 1]
    /\ UNCHANGED <<cfg, srv, wsh, tcp, nonWS>>

\* the counter's modulus
CounterMod == Pow2(CounterBits)

\* atomic.AddUint32(counter, 1): the new value, wrapping
AddUint32(v) == (v + 1) % CounterMod

\* int(idx): the value itself where int is wider than the counter, its two's
\* complement reading where int has the counter's width
IntOf(idx, wide) ==
    IF wide \/ idx < CounterMod \div 2 THEN idx ELSE idx - CounterMod

\* Go's %: the remainder has the sign of the dividend
GoRem(a, n) == IF a >= 0 THEN a % n ELSE -((-a) % n)

\* int(idx) % len(backends)
PickIndex(idx, n, wide) == GoRem(IntOf(idx, wide), n)

\* Get's round-robin choice: the counter is incremented first and the new
\* value indexes the backend list (Go indexes from 0, sequences from 1)
PickBackend(p, logical) ==
    p.backends[logical][PickIndex(AddUint32(p.counters[logical]),
                                  Len(p.backends[logical]), TRUE) + 1]

\* NewWSBridge(ws, tcpConn, cfg): startWS launches the two copy goroutines
NewWSBridge(hr, c) ==
    [hr EXCEPT !.pc = "bridging", !.conn = c, !.t2w = "run", !.w2t = "run",
               !.deadline = clock.now + ReadTimeout,
               !.wsLastRead = clock.now, !.tcpLastRead = clock.now]

\* the handler's path when Get fails: close frame 1011, deferred ws.Close
ConnectFailed(hr, dialed) ==
    [hr EXCEPT !.pc = "done", !.close1011 = TRUE, !.dialFailed = dialed,
               !.wsClosed = TRUE]

\* Get up to the release of the mutex: no backends, a pooled connection, or
\* the decision to dial
PoolGetLocked(h) ==
    /\ wsh[h].pc = "get"
    /\ LET logical == wsh[h].target
           hr == [wsh[h] EXCEPT !.poolAsked = TRUE]
       IN  IF logical \notin pool.registered \/ Len(pool.backends[logical]) = 0
           THEN /\ wsh' = [wsh EXCEPT ![h] = ConnectFailed(hr, FALSE)]
                /\ UNCHANGED pool
           ELSE LET backend == PickBackend(pool, logical)
                    conns == pool.conns[backend]
                IN  /\ pool' = [pool EXCEPT
                            !.counters[logical] = AddUint32(@),
                            !.conns[backend] =
                                IF Len(conns) > 0
                                THEN SubSeq(conns, 1, Len(conns) - 1) ELSE conns]
                    /\ wsh' = [wsh EXCEPT ![h] =
                            IF Len(conns) > 0
                            THEN NewWSBridge([hr EXCEPT !.backend = backend],
                                             conns[Len(conns)])
                            ELSE [hr EXCEPT !.pc = "dial", !.backend = backend]]
    /\ UNCHANGED <<cfg, srv, tcp, env, nonWS>>

\* net.DialTimeout("tcp", backend, 5s), outside the mutex
PoolGetDial(h, ok) ==
    /\ wsh[h].pc = "dial"
    /\ ok => pool.dials < MaxConns
    /\ IF ok
       THEN LET c == pool.dials + 1
            IN  /\ tcp' = [tcp EXCEPT ![c] =
                        [ConnNone EXCEPT !.backend = wsh[h].backend,
                                         !.dialed = TRUE, !.open = TRUE]]
                /\ pool' = [pool EXCEPT !.dials = c]
                /\ wsh' = [wsh EXCEPT ![h] = NewWSBridge(wsh[h], c)]
       ELSE /\ wsh' = [wsh EXCEPT ![h] = ConnectFailed(wsh[h], TRUE)]
            /\ UNCHANGED <<tcp, pool>>
    /\ UNCHANGED <<cfg, srv, env, nonWS>>

\* Put(target, conn), with maxSize = cfg.TCPPoolSize, followed by the
\* handler's deferred ws.Close
PoolPut(h) ==
    /\ wsh[h].pc = "put"
    /\ LET key == wsh[h].target
           c == wsh[h].conn
       IN  IF Len(pool.conns[key]) >= cfg.TCPPoolSize
           THEN /\ tcp' = [tcp EXCEPT ![c].open = FALSE, ![c].discarded = TRUE]
                /\ UNCHANGED pool
           ELSE /\ pool' = [pool EXCEPT !.conns[key] = Append(@, c)]
                /\ UNCHANGED tcp
    /\ wsh' = [wsh EXCEPT ![h].pc = "done"]
    /\ UNCHANGED <<cfg, srv, env, nonWS>>

(***************************************************************************)
(* WebSocket handler.                                                      *)
(***************************************************************************)
TrimSlash(path) ==
    IF Len(path) > 0 /\ path[1] = "/" THEN Tail(path) ELSE path

extractTarget(req) ==
    LET path == TrimSlash(req.path)
    IN  IF path # <<>> /\ Contains(path, ":")
        THEN [target |-> path, ok |-> TRUE]
        ELSE IF req.query # <<>>
        THEN [target |-> req.query, ok |-> TRUE]
        ELSE [target |-> <<>>, ok |-> FALSE]

\* WSHandle with the upgrade moved before the authorizer
WSHandleUpgradeFirst(h, req, upgradeOK) ==
    /\ srv.state = "serving"
    /\ wsh[h].pc = "idle"
    /\ \A g \in Handlers : g < h => wsh[g].pc # "idle"
    /\ env.reqs > 0
    /\ env' = [env EXCEPT !.reqs = @ - 1]
    /\ LET x == extractTarget(req)
           hr == [wsh[h] EXCEPT !.req = req, !.target = x.target]
       IN  wsh' = [wsh EXCEPT ![h] =
               IF ~x.ok
               THEN [hr EXCEPT !.pc = "done", !.resp = "400 missing target"]
               ELSE IF ~upgradeOK
               THEN [hr EXCEPT !.pc = "done", !.resp = "upgrade failed"]
               ELSE IF ~isAllowedEnhanced(srv.rules, x.target)
               THEN [hr EXCEPT !.pc = "done", !.resp = "403 target not allowed",
                               !.upgraded = TRUE]
               ELSE [hr EXCEPT !.pc = "get", !.resp = "101", !.upgraded = TRUE]]
    /\ UNCHANGED <<cfg, srv, tcp, pool, nonWS>>

\* the handler up to the upgrade: 400, 403, a failed upgrade, or 101
WSHandle(h, req, upgradeOK) ==
    /\ srv.state = "serving"
    /\ wsh[h].pc = "idle"
    /\ \A g \in Handlers : g < h => wsh[g].pc # "idle"
    /\ env.reqs > 0
    /\ env' = [env EXCEPT !.reqs = @ - 1]
    /\ LET x == extractTarget(req)
           hr == [wsh[h] EXCEPT !.req = req, !.target = x.target]
       IN  wsh' = [wsh EXCEPT ![h] =
               IF ~x.ok
               THEN [hr EXCEPT !.pc = "done", !.resp = "400 missing target"]
               ELSE IF ~isAllowedEnhanced(srv.rules, x.target)
               THEN [hr EXCEPT !.pc = "done", !.resp = "403 target not allowed"]
               ELSE IF ~upgradeOK
               THEN [hr EXCEPT !.pc = "done", !.resp = "upgrade failed"]
               ELSE [hr EXCEPT !.pc = "get", !.resp = "101", !.upgraded = TRUE]]
    /\ UNCHANGED <<cfg, srv, tcp, pool, nonWS>>

\* b.Wg().Wait() returns, then the deferred b.Close(): both endpoints closed
HandlerClose(h) ==
    /\ wsh[h].pc = "bridging"
    /\ wsh[h].t2w = "done"
    /\ wsh[h].w2t = "done"
    /\ wsh' = [wsh EXCEPT ![h].pc = "put", ![h].wsClosed = TRUE]
    /\ tcp' = [tcp EXCEPT ![wsh[h].conn].open = FALSE]
    /\ UNCHANGED <<cfg, srv, pool, env, nonWS>>

(***************************************************************************)
(* WebSocket bridge: the two copy goroutines of startWS.                   *)
(***************************************************************************)
WSWritable(hr) == ~hr.clientClosed /\ ~hr.wsClosed

TCPWritable(c) == tcp[c].open /\ ~tcp[c].peerClosed

\* TCP -> WS, one iteration: tcpConn.Read, then writeWSFrame
T2WStep(h, n) ==
    /\ wsh[h].t2w = "run"
    /\ LET c == wsh[h].conn
           hr == wsh[h]
       IN  IF ~tcp[c].open
           THEN \* read on a closed connection fails
                /\ n = 1
                /\ wsh' = [wsh EXCEPT ![h].t2w = "done", ![h].t2wExit = "err"]
                /\ UNCHANGED tcp
           ELSE IF Len(tcp[c].in) > 0
           THEN /\ n \in 1..Len(tcp[c].in)
                /\ tcp' = [tcp EXCEPT ![c].in = SubSeq(@, n + 1, Len(@))]
                /\ LET data == SubSeq(tcp[c].in, 1, n)
                       rd == [hr EXCEPT !.BytesSent = @ + n,
                                        !.tcpRead = @ \o data,
                                        !.tcpLastRead = clock.now]
                   IN  wsh' = [wsh EXCEPT ![h] =
                           IF WSWritable(hr)
                           THEN [rd EXCEPT !.wsOut = @ \o data]
                           ELSE [rd EXCEPT !.t2w = "done", !.t2wExit = "werr"]]
           ELSE /\ tcp[c].peerClosed
                /\ n = 1
                /\ wsh' = [wsh EXCEPT ![h].t2w = "done", ![h].t2wExit = "eof"]
                /\ UNCHANGED tcp
    /\ UNCHANGED <<cfg, srv, pool, env, nonWS>>

\* WS -> TCP, one iteration: NextReader, readWSFrame, tcpConn.Write
W2TStep(h) ==
    /\ wsh[h].w2t = "run"
    /\ LET hr == wsh[h]
       IN  IF hr.wsClosed
           THEN wsh' = [wsh EXCEPT ![h].w2t = "done", ![h].w2tExit = "err"]
           ELSE IF Len(hr.wsIn) > 0
           THEN LET m == Head(hr.wsIn)
                    rest == [hr EXCEPT !.wsIn = Tail(@), !.wsLastRead = clock.now]
                IN  wsh' = [wsh EXCEPT ![h] =
                        CASE m.kind = "text" -> rest
                          [] m.kind = "short" ->
                                [rest EXCEPT !.w2t = "done", !.w2tExit = "malformed"]
                          [] m.kind = "other" -> rest
                          [] OTHER ->
                                IF TCPWritable(hr.conn)
                                THEN [rest EXCEPT
                                        !.wsRead = @ \o m.payload,
                                        !.tcpWritten = @ \o m.payload,
                                        !.BytesReceived = @ + Len(m.payload)]
                                ELSE [rest EXCEPT !.wsRead = @ \o m.payload]]
           ELSE /\ hr.clientClosed
                /\ wsh' = [wsh EXCEPT ![h].w2t = "done", ![h].w2tExit = "eof"]
    /\ UNCHANGED <<cfg, srv, tcp, pool, env, nonWS>>

\* the read deadline set once by startWS passes: NextReader fails
W2TTimeout(h) ==
    /\ wsh[h].w2t = "run"
    /\ wsh' = [wsh EXCEPT ![h].w2t = "done", ![h].w2tExit = "timeout",
                          ![h].wsIn = <<>>]
    /\ UNCHANGED <<cfg, srv, tcp, pool, env, nonWS>>

(***************************************************************************)
(* The peers: WebSocket clients and TCP backends.                          *)
(***************************************************************************)
ClientLive(hr) ==
    hr.upgraded /\ ~hr.clientClosed /\ hr.pc \in {"get", "dial", "bridging"}

ClientSend(h, kind) ==
    /\ ClientLive(wsh[h])
    /\ env.msgs > 0
    /\ wsh' = [wsh EXCEPT
            ![h].wsIn = Append(@, [kind |-> kind, payload |-> <<wsh[h].wsSent + 1>>]),
            ![h].wsSent = @ + 1]
    /\ env' = [env EXCEPT !.msgs = @ - 1]
    /\ UNCHANGED <<cfg, srv, tcp, pool, nonWS>>

ClientClose(h) ==
    /\ ClientLive(wsh[h])
    /\ wsh' = [wsh EXCEPT ![h].clientClosed = TRUE]
    /\ UNCHANGED <<cfg, srv, tcp, pool, env, nonWS>>

BackendSend(c) ==
    /\ tcp[c].open
    /\ ~tcp[c].peerClosed
    /\ env.bytes > 0
    /\ tcp' = [tcp EXCEPT ![c].in = Append(@, tcp[c].sent + 1), ![c].sent = @ + 1]
    /\ env' = [env EXCEPT !.bytes = @ - 1]
    /\ UNCHANGED <<cfg, srv, wsh, pool, nonWS>>

BackendClose(c) ==
    /\ tcp[c].open
    /\ ~tcp[c].peerClosed
    /\ tcp' = [tcp EXCEPT ![c].peerClosed = TRUE]
    /\ UNCHANGED <<cfg, srv, wsh, pool, env, nonWS>>

(***************************************************************************)
(* The WebSocket side of the server with its pool.                         *)
(***************************************************************************)
Next ==
    \/ Start
    \/ \E r \in Registrations : AddTargets(r.logical, r.targets)
    \/ \E h \in Handlers, req \in Requests, ok \in BOOLEAN : WSHandle(h, req, ok)
    \/ \E h \in Handlers : PoolGetLocked(h)
    \/ \E h \in Handlers, ok \in BOOLEAN : PoolGetDial(h, ok)
    \/ \E h \in Handlers, n \in 1..MaxBytes : T2WStep(h, n)
    \/ \E h \in Handlers : W2TStep(h)
    \/ \E h \in Handlers : W2TTimeout(h)
    \/ \E h \in Handlers : HandlerClose(h)
    \/ \E h \in Handlers : PoolPut(h)
    \/ \E h \in Handlers : ClientClose(h)
    \/ \E c \in ConnIds : BackendClose(c)

Spec == Init /\ [][Next]_vars

\* one session, with payload
NextBridge ==
    \/ Next
    \/ \E h \in Handlers, k \in MsgKinds : ClientSend(h, k)
    \/ \E c \in ConnIds : BackendSend(c)

SpecBridge == InitBridge /\ [][NextBridge]_vars

(***************************************************************************)
(* QUIC acceptor: quicAcceptLoop and handleQUICSession.                    *)
(***************************************************************************)
\* Accept returns a connection; handleQUICSession registers its state under
\* the remote address
QUICAccept(s, addr) ==
    /\ srv.state = "serving"
    /\ qs[s].pc = "none"
    /\ \A r \in SessionIds : r < s => qs[r].pc # "none"
    /\ qs' = [qs EXCEPT ![s].pc = "accepting", ![s].addr = addr,
                        ![s].lastActive = clock.now]
    /\ table' = [table EXCEPT ![addr] = s]
    /\ UNCHANGED <<cfg, srv, qb, qenv, nonQUIC>>

\* NewQUICBridge(stream, nil, cfg): startQUIC launches the two copy goroutines
NewQUICBridge ==
    [QBridgeNone EXCEPT !.state = "open", !.q2t = "run", !.t2q = "run"]

\* AcceptStream returns a stream: its bridge is created and entered in the
\* session's stream map, and the goroutine waiting for the bridge is started
QAcceptStream(s) ==
    /\ qs[s].pc = "accepting"
    /\ ~qs[s].peerClosed /\ ~qs[s].reaped
    /\ qs[s].accepted < NumStreams
    /\ LET k == qs[s].accepted + 1
       IN  /\ qb' = [qb EXCEPT ![s][k] =
                    [NewQUICBridge EXCEPT !.inMap = TRUE, !.cleanup = "wait"]]
           /\ qs' = [qs EXCEPT ![s].accepted = k, ![s].lastActive = clock.now]
    /\ UNCHANGED <<cfg, srv, table, qenv, nonQUIC>>

\* AcceptStream fails: the loop ends, the entry under the remote address is
\* deleted and the connection closed
QAcceptError(s) ==
    /\ qs[s].pc = "accepting"
    /\ qs[s].peerClosed \/ qs[s].reaped
    /\ qs' = [qs EXCEPT ![s].pc = "closed", ![s].closedByServer = TRUE,
                        ![s].closeCode = IF qs[s].reaped THEN @ ELSE 0,
                        ![s].closeReason = IF qs[s].reaped THEN @ ELSE "session closed"]
    /\ table' = [table EXCEPT ![qs[s].addr] = 0]
    /\ UNCHANGED <<cfg, srv, qb, qenv, nonQUIC>>

(***************************************************************************)
(* QUIC bridge: the two copy goroutines of startQUIC.                      *)
(***************************************************************************)
\* addresses net.Dial can reach
Dialable == {T_SSH, T_Out}

\* the stream can no longer be read or written: its connection is gone
StreamDead(s, b) ==
    qs[s].peerClosed \/ qs[s].closedByServer \/ qs[s].reaped \/ b.reset

QTCPWritable(b) == ~b.tcpClosed /\ ~b.tPeerClosed

\* the bytes of the first n writes pending on a stream
RECURSIVE Flatten(_)
Flatten(chunks) ==
    IF chunks = <<>> THEN <<>> ELSE Head(chunks) \o Flatten(Tail(chunks))

\* FirstChunk without the continue statement: the chunk dialed is also
\* counted and written to the TCP connection
FirstChunkForwarded(b, chunk, dialOK) ==
    IF dialOK
    THEN [b EXCEPT !.target = chunk, !.dialTarget = chunk,
                   !.tcpConn = "conn", !.dialed = TRUE,
                   !.BytesReceived = @ + Len(chunk), !.fwd = @ \o chunk]
    ELSE [b EXCEPT !.target = chunk, !.dialTarget = chunk,
                   !.dialFailed = TRUE, !.q2t = "done", !.q2tExit = "dialerr"]

\* the first chunk with content: it names the target and is dialed, then
\* skipped by the continue statement
FirstChunk(b, chunk, dialOK) ==
    IF dialOK
    THEN [b EXCEPT !.target = chunk, !.dialTarget = chunk,
                   !.tcpConn = "conn", !.dialed = TRUE]
    ELSE [b EXCEPT !.target = chunk, !.dialTarget = chunk,
                   !.dialFailed = TRUE, !.q2t = "done", !.q2tExit = "dialerr"]

\* a later chunk: counted, then written to the TCP connection
LaterChunk(b, chunk) ==
    IF QTCPWritable(b)
    THEN [b EXCEPT !.BytesReceived = @ + Len(chunk), !.fwd = @ \o chunk,
                   !.lastMove = clock.now]
    ELSE [b EXCEPT !.BytesReceived = @ + Len(chunk),
                   !.q2t = "done", !.q2tExit = "werr"]

\* QUIC -> TCP, one iteration: quicStr.Read returns what n pending writes
\* carried (a stream has no message boundaries), then the dial or the write
Q2TStep(s, k, n, dialOK) ==
    /\ qb[s][k].q2t = "run"
    /\ LET b == qb[s][k]
       IN  IF StreamDead(s, b)
           THEN /\ dialOK /\ n = 1
                /\ qb' = [qb EXCEPT ![s][k].q2t = "done", ![s][k].q2tExit = "err"]
           ELSE IF Len(b.in) > 0
           THEN /\ n \in 1..Len(b.in)
                /\ LET chunk == Flatten(SubSeq(b.in, 1, n))
                       rd == [b EXCEPT !.in = SubSeq(@, n + 1, Len(@)),
                                       !.readChunks = Append(@, chunk)]
                   IN  /\ dialOK => (b.tcpConn # "nil" \/ chunk \in Dialable)
                       /\ ~dialOK => b.tcpConn = "nil"
                       /\ qb' = [qb EXCEPT ![s][k] =
                               IF b.tcpConn = "nil"
                               THEN FirstChunk(rd, chunk, dialOK)
                               ELSE LaterChunk(rd, chunk)]
           ELSE /\ b.fin
                /\ dialOK /\ n = 1
                /\ qb' = [qb EXCEPT ![s][k].q2t = "done", ![s][k].q2tExit = "eof"]
    /\ UNCHANGED <<cfg, srv, qs, table, qenv, nonQUIC>>

\* TCP -> QUIC while b.tcpConn reads as nil: sleep 10 ms and look again.  The
\* field is written by the other goroutine without synchronisation, so nil
\* may still be read after the dial.
T2QWait(s, k) ==
    /\ qb[s][k].t2q = "run"
    /\ UNCHANGED vars

\* TCP -> QUIC, one iteration once b.tcpConn is seen: tcpConn.Read, then
\* quicStr.Write
T2QStep(s, k, n) ==
    /\ qb[s][k].t2q = "run"
    /\ qb[s][k].tcpConn # "nil"
    /\ LET b == qb[s][k]
       IN  IF b.tcpClosed
           THEN /\ n = 1
                /\ qb' = [qb EXCEPT ![s][k].t2q = "done"]
           ELSE IF Len(b.tin) > 0
           THEN /\ n \in 1..Len(b.tin)
                /\ LET data == SubSeq(b.tin, 1, n)
                       rd == [b EXCEPT !.tin = SubSeq(@, n + 1, Len(@)),
                                       !.BytesSent = @ + n]
                   IN  qb' = [qb EXCEPT ![s][k] =
                           IF StreamDead(s, b)
                           THEN [rd EXCEPT !.t2q = "done"]
                           ELSE [rd EXCEPT !.qOut = @ \o data,
                                           !.lastMove = clock.now]]
           ELSE /\ b.tPeerClosed
                /\ n = 1
                /\ qb' = [qb EXCEPT ![s][k].t2q = "done"]
    /\ UNCHANGED <<cfg, srv, qs, table, qenv, nonQUIC>>

\* QCleanup without b.Wg().Wait(): the entry is deleted as soon as the
\* QUIC -> TCP goroutine has exited
QCleanupEarly(s, k) ==
    /\ qb[s][k].cleanup = "wait"
    /\ qb[s][k].q2t = "done"
    /\ qb' = [qb EXCEPT ![s][k].reset = TRUE,
                        ![s][k].tcpClosed = (qb[s][k].tcpConn # "nil"),
                        ![s][k].inMap = FALSE,
                        ![s][k].cleanup = "done"]
    /\ UNCHANGED <<cfg, srv, qs, table, qenv, nonQUIC>>

\* the goroutine started with the stream: b.Wg().Wait() returns, b.Close()
\* cancels the stream and closes the TCP connection, the map entry is deleted
QCleanup(s, k) ==
    /\ qb[s][k].cleanup = "wait"
    /\ qb[s][k].q2t = "done"
    /\ qb[s][k].t2q = "done"
    /\ qb' = [qb EXCEPT ![s][k].reset = TRUE,
                        ![s][k].tcpClosed = (qb[s][k].tcpConn # "nil"),
                        ![s][k].inMap = FALSE,
                        ![s][k].cleanup = "done"]
    /\ UNCHANGED <<cfg, srv, qs, table, qenv, nonQUIC>>

(***************************************************************************)
(* The QUIC peers: clients and the backends dialed.                        *)
(***************************************************************************)
QStreamLive(s, k) ==
    qb[s][k].state = "open" /\ ~qb[s][k].fin /\ ~StreamDead(s, qb[s][k])

QClientWrite(s, k, chunk) ==
    /\ QStreamLive(s, k)
    /\ qenv.chunks > 0
    /\ chunk \in QTargets \cup {DataChunk(qb[s][k].sent + 1)}
    /\ qb' = [qb EXCEPT ![s][k].in = Append(@, chunk), ![s][k].sent = @ + 1]
    /\ qenv' = [qenv EXCEPT !.chunks = @ - 1]
    /\ UNCHANGED <<cfg, srv, qs, table, nonQUIC>>

QClientFin(s, k) ==
    /\ QStreamLive(s, k)
    /\ qb' = [qb EXCEPT ![s][k].fin = TRUE]
    /\ UNCHANGED <<cfg, srv, qs, table, qenv, nonQUIC>>

QBackendSend(s, k) ==
    /\ qb[s][k].tcpConn # "nil"
    /\ QTCPWritable(qb[s][k])
    /\ qenv.bytes > 0
    /\ qb' = [qb EXCEPT ![s][k].tin = Append(@, qb[s][k].tsent + 1),
                        ![s][k].tsent = @ + 1]
    /\ qenv' = [qenv EXCEPT !.bytes = @ - 1]
    /\ UNCHANGED <<cfg, srv, qs, table, nonQUIC>>

QBackendClose(s, k) ==
    /\ qb[s][k].tcpConn # "nil"
    /\ QTCPWritable(qb[s][k])
    /\ qb' = [qb EXCEPT ![s][k].tPeerClosed = TRUE]
    /\ UNCHANGED <<cfg, srv, qs, table, qenv, nonQUIC>>

\* the client closes its QUIC connection
QSessionClose(s) ==
    /\ qs[s].pc = "accepting"
    /\ ~qs[s].peerClosed
    /\ qs' = [qs EXCEPT ![s].peerClosed = TRUE]
    /\ UNCHANGED <<cfg, srv, table, qb, qenv, nonQUIC>>

NextQUIC ==
    \/ Start
    \/ \E s \in QSessions, a \in QAddrs : QUICAccept(s, a)
    \/ \E s \in QSessions : QAcceptStream(s)
    \/ \E s \in QSessions : QAcceptError(s)
    \/ \E s \in QSessions, k \in QStreams, n \in 1..MaxCoalesce, ok \in BOOLEAN :
            Q2TStep(s, k, n, ok)
    \/ \E s \in QSessions, k \in QStreams : T2QWait(s, k)
    \/ \E s \in QSessions, k \in QStreams, n \in 1..MaxQBytes : T2QStep(s, k, n)
    \/ \E s \in QSessions, k \in QStreams : QCleanup(s, k)
    \/ \E s \in QSessions, k \in QStreams, c \in QTargets \cup {DataChunk(i) : i \in 1..MaxChunks} :
            QClientWrite(s, k, c)
    \/ \E s \in QSessions, k \in QStreams : QClientFin(s, k)
    \/ \E s \in QSessions, k \in QStreams : QBackendSend(s, k)
    \/ \E s \in QSessions, k \in QStreams : QBackendClose(s, k)
    \/ \E s \in QSessions : QSessionClose(s)

SpecQUIC == InitQUIC /\ [][NextQUIC]_vars

(***************************************************************************)
(* The idle-session reaper: cleanupIdleSessions.                           *)
(***************************************************************************)
\* QUIC sessions without traffic
InitReaper ==
    /\ cfg = [AllowedTargets |-> <<>>, TCPPoolSize |-> 0]
    /\ ServerNew
    /\ env = [reqs |-> 0, msgs |-> 0, bytes |-> 0, adds |-> 0]
    /\ NoQUICPeers
    /\ NoPoolUsers
    /\ auth = AuthIdle

\* Start has launched the accept loop and the reaper; no statement ends the
\* reaper's loop
Started == srv.state \in {"serving", "stopped"}

\* time passes, counted from the start of the ticker; a scan that is due runs
\* before more time passes
Tick ==
    /\ Started
    /\ clock.now < clock.nextScan
    /\ clock.now + TickStep <= MaxTime
    /\ clock' = [clock EXCEPT !.now = @ + TickStep]
    /\ UNCHANGED <<cfg, srv, wsVars, quicVars, auth, pu, cl, cp, tlsm, mx>>

\* the session entered under addr is idle at time now
Idle(addr, now) ==
    table[addr] # 0 /\ now - qs[table[addr]].lastActive > IdleLimit

\* one firing of the ticker: the table is scanned under sessionsMu, every idle
\* session is closed with CloseWithError(0, "idle timeout") and its entry
\* deleted
ReaperScan ==
    /\ Started
    /\ clock.now >= clock.nextScan
    /\ clock' = [clock EXCEPT !.nextScan = @ + ScanPeriod]
    /\ LET closed == {table[a] : a \in {x \in QAddrs : Idle(x, clock.now)}}
       IN  /\ qs' = [s \in SessionIds |->
                        IF s \in closed /\ qs[s].closeCode = NoCode
                        THEN [qs[s] EXCEPT !.reaped = TRUE, !.closeCode = 0,
                                           !.closeReason = "idle timeout"]
                        ELSE qs[s]]
           /\ table' = [a \in QAddrs |-> IF Idle(a, clock.now) THEN 0 ELSE table[a]]
    /\ UNCHANGED <<cfg, srv, qb, qenv, auth, wsVars, pu, cl, cp, tlsm, mx>>

NextReaper ==
    \/ Start
    \/ \E s \in SessionIds, a \in QAddrs : QUICAccept(s, a)
    \/ \E s \in SessionIds : QAcceptStream(s)
    \/ \E s \in SessionIds : QAcceptError(s)
    \/ \E s \in SessionIds : QSessionClose(s)
    \/ Tick
    \/ ReaperScan

SpecReaper == InitReaper /\ [][NextReaper]_vars

(***************************************************************************)
(* The reaper beside sessions that carry traffic.                          *)
(***************************************************************************)
InitIdle ==
    /\ cfg = [AllowedTargets |-> <<>>, TCPPoolSize |-> 0]
    /\ ServerNew
    /\ env = [reqs |-> 0, msgs |-> 0, bytes |-> 0, adds |-> 0]
    /\ qenv = [chunks |-> MaxChunks, bytes |-> MaxQBytes]
    /\ NoPoolUsers
    /\ auth = AuthIdle

\* one session, the client and the backend of its first stream, the clock and
\* the reaper
NextIdle ==
    \/ Start
    \/ \E a \in QAddrs : QUICAccept(1, a)
    \/ QAcceptStream(1)
    \/ QAcceptError(1)
    \/ \E n \in 1..MaxCoalesce : Q2TStep(1, 1, n, TRUE)
    \/ \E n \in 1..MaxQBytes : T2QStep(1, 1, n)
    \/ QCleanup(1, 1)
    \/ \E c \in {T_SSH} \cup {DataChunk(i) : i \in 1..MaxChunks} : QClientWrite(1, 1, c)
    \/ QBackendSend(1, 1)
    \/ Tick
    \/ ReaperScan

SpecIdle == InitIdle /\ [][NextIdle]_vars

(***************************************************************************)
(* One WebSocket bridge with the clock: the read deadline of startWS.      *)
(***************************************************************************)
InitDeadline ==
    /\ cfg = [AllowedTargets |-> <<>>, TCPPoolSize |-> 1]
    /\ ServerNew
    /\ env = [reqs |-> 1, msgs |-> MaxMsgs, bytes |-> MaxBytes, adds |-> MaxAdds]
    /\ NoQUICPeers
    /\ NoPoolUsers
    /\ auth = AuthIdle

\* NextReader at or after the deadline that startWS or the pong handler set:
\* the read fails
W2TDeadline(h) ==
    /\ wsh[h].w2t = "run"
    /\ ~wsh[h].wsClosed
    /\ clock.now >= wsh[h].deadline
    /\ wsh' = [wsh EXCEPT ![h].w2t = "done", ![h].w2tExit = "timeout",
                          ![h].wsIn = <<>>]
    /\ UNCHANGED <<cfg, srv, tcp, pool, env, nonWS>>

\* the client sends a pong; the pong handler moves the deadline
ClientPong(h) ==
    /\ ClientLive(wsh[h])
    /\ wsh[h].w2t = "run"
    /\ clock.now < wsh[h].deadline
    /\ wsh[h].deadline < clock.now + ReadTimeout
    /\ wsh' = [wsh EXCEPT ![h].deadline = clock.now + ReadTimeout,
                          ![h].wsLastRead = clock.now]
    /\ UNCHANGED <<cfg, srv, tcp, pool, env, nonWS>>

\* time passes; a read whose deadline has passed fails before more time passes
TickWS ==
    /\ \A h \in Handlers : wsh[h].w2t = "run" => clock.now < wsh[h].deadline
    /\ Tick

NextDeadline ==
    \/ Start
    \/ \E r \in Registrations : AddTargets(r.logical, r.targets)
    \/ \E h \in Handlers, req \in Requests, ok \in BOOLEAN : WSHandle(h, req, ok)
    \/ \E h \in Handlers : PoolGetLocked(h)
    \/ \E h \in Handlers : PoolGetDial(h, TRUE)
    \/ \E h \in Handlers, n \in 1..MaxBytes : T2WStep(h, n)
    \/ \E h \in Handlers : W2TStep(h)
    \/ \E h \in Handlers : W2TDeadline(h)
    \/ \E h \in Handlers : HandlerClose(h)
    \/ \E h \in Handlers : PoolPut(h)
    \/ \E h \in Handlers : ClientSend(h, "data")
    \/ \E h \in Handlers : ClientPong(h)
    \/ \E c \in ConnIds : BackendSend(c)
    \/ \E c \in ConnIds : BackendClose(c)
    \/ TickWS
    \/ ReaperScan

SpecDeadline == InitDeadline /\ [][NextDeadline]_vars

(***************************************************************************)
(* Who writes to the WebSocket connection.  The copy loops of startWS are  *)
(* taken apart here: a write to the connection begins and ends in separate *)
(* steps.  writeWSFrame calls ws.WriteMessage; NextReader answers a ping   *)
(* of the client with a pong through the connection's default ping         *)
(* handler.  Both take the connection's write mutex of the websocket       *)
(* library around the write to the network.  startWS installs a pong       *)
(* handler only, so the default ping handler stays in place.               *)
(***************************************************************************)
WSTasks == {"t2w", "w2t"}

\* the write mutex of the connection is free
WriteMuNever(hr) == TRUE

WriteMuFree(hr) == hr.wmu = "free"

WriteLock(hr, task) ==
    [hr EXCEPT !.wmu = task, !.writing = @ \cup {task}]

WriteUnlock(hr, task) ==
    [hr EXCEPT !.wmu = "free", !.writing = @ \ {task}]

\* TCP -> WS: tcpConn.Read
T2WRead(h, n) ==
    /\ wsh[h].t2w = "run"
    /\ wsh[h].pend = <<>>
    /\ LET c == wsh[h].conn
           hr == wsh[h]
       IN  IF ~tcp[c].open
           THEN /\ n = 1
                /\ wsh' = [wsh EXCEPT ![h].t2w = "done", ![h].t2wExit = "err"]
                /\ UNCHANGED tcp
           ELSE IF Len(tcp[c].in) > 0
           THEN /\ n \in 1..Len(tcp[c].in)
                /\ tcp' = [tcp EXCEPT ![c].in = SubSeq(@, n + 1, Len(@))]
                /\ wsh' = [wsh EXCEPT ![h] =
                        [hr EXCEPT !.BytesSent = @ + n,
                                   !.tcpRead = @ \o SubSeq(tcp[c].in, 1, n),
                                   !.tcpLastRead = clock.now,
                                   !.pend = SubSeq(tcp[c].in, 1, n)]]
           ELSE /\ tcp[c].peerClosed
                /\ n = 1
                /\ wsh' = [wsh EXCEPT ![h].t2w = "done", ![h].t2wExit = "eof"]
                /\ UNCHANGED tcp
    /\ UNCHANGED <<cfg, srv, pool, env, nonWS>>

\* TCP -> WS: writeWSFrame enters the write, or fails on a closed connection
T2WWriteStart(h) ==
    /\ wsh[h].t2w = "run"
    /\ wsh[h].pend # <<>>
    /\ "t2w" \notin wsh[h].writing
    /\ WriteMuFree(wsh[h])
    /\ wsh' = [wsh EXCEPT ![h] =
            IF WSWritable(wsh[h])
            THEN WriteLock(wsh[h], "t2w")
            ELSE [wsh[h] EXCEPT !.t2w = "done", !.t2wExit = "werr",
                                !.pend = <<>>]]
    /\ UNCHANGED <<cfg, srv, tcp, pool, env, nonWS>>

\* TCP -> WS: the frame is on the wire, writeWSFrame returns
T2WWriteEnd(h) ==
    /\ "t2w" \in wsh[h].writing
    /\ wsh' = [wsh EXCEPT ![h] =
            [WriteUnlock(wsh[h], "t2w") EXCEPT !.wsOut = @ \o wsh[h].pend,
                                               !.pend = <<>>]]
    /\ UNCHANGED <<cfg, srv, tcp, pool, env, nonWS>>

PingNext(hr) == Len(hr.wsIn) > 0 /\ Head(hr.wsIn).kind = "ping"

\* WS -> TCP: NextReader meets a ping, the ping handler has a pong to send
W2TPing(h) ==
    /\ wsh[h].w2t = "run"
    /\ ~wsh[h].wsClosed
    /\ ~wsh[h].ctl
    /\ PingNext(wsh[h])
    /\ wsh' = [wsh EXCEPT ![h].wsIn = Tail(@), ![h].ctl = TRUE]
    /\ UNCHANGED <<cfg, srv, tcp, pool, env, nonWS>>

\* WS -> TCP: the ping handler enters the write of the pong
W2TPongStart(h) ==
    /\ wsh[h].ctl
    /\ "w2t" \notin wsh[h].writing
    /\ WriteMuFree(wsh[h])
    /\ wsh' = [wsh EXCEPT ![h] = WriteLock(wsh[h], "w2t")]
    /\ UNCHANGED <<cfg, srv, tcp, pool, env, nonWS>>

\* WS -> TCP: the pong is on the wire, NextReader goes on reading
W2TPongEnd(h) ==
    /\ "w2t" \in wsh[h].writing
    /\ wsh' = [wsh EXCEPT ![h] =
            [WriteUnlock(wsh[h], "w2t") EXCEPT !.ctl = FALSE, !.pongs = @ + 1]]
    /\ UNCHANGED <<cfg, srv, tcp, pool, env, nonWS>>

\* WS -> TCP: every other message, as in W2TStep
W2TData(h) ==
    /\ ~wsh[h].ctl
    /\ ~PingNext(wsh[h])
    /\ W2TStep(h)

InitWriters ==
    /\ cfg = [AllowedTargets |-> <<>>, TCPPoolSize |-> 1]
    /\ ServerNew
    /\ env = [reqs |-> 1, msgs |-> MaxMsgs, bytes |-> MaxBytes,
              adds |-> MaxAdds]
    /\ NoQUICPeers
    /\ NoPoolUsers
    /\ auth = AuthIdle

NextWriters ==
    \/ Start
    \/ \E r \in Registrations : AddTargets(r.logical, r.targets)
    \/ \E h \in Handlers, req \in Requests, ok \in BOOLEAN : WSHandle(h, req, ok)
    \/ \E h \in Handlers : PoolGetLocked(h)
    \/ \E h \in Handlers, ok \in BOOLEAN : PoolGetDial(h, ok)
    \/ \E h \in Handlers, n \in 1..MaxBytes : T2WRead(h, n)
    \/ \E h \in Handlers : T2WWriteStart(h)
    \/ \E h \in Handlers : T2WWriteEnd(h)
    \/ \E h \in Handlers : W2TPing(h)
    \/ \E h \in Handlers : W2TPongStart(h)
    \/ \E h \in Handlers : W2TPongEnd(h)
    \/ \E h \in Handlers : W2TData(h)
    \/ \E h \in Handlers : HandlerClose(h)
    \/ \E h \in Handlers : PoolPut(h)
    \/ \E h \in Handlers, k \in {"data", "ping"} : ClientSend(h, k)
    \/ \E h \in Handlers : ClientClose(h)
    \/ \E c \in ConnIds : BackendSend(c)
    \/ \E c \in ConnIds : BackendClose(c)

SpecWriters == InitWriters /\ [][NextWriters]_vars

(***************************************************************************)
(* Mutexes.  Every Lock and Unlock of the MetricsManager, of the idle      *)
(* reaper and of the logger's level is a step of its own, so that the      *)
(* mutexes a task holds are part of the state.  An entry of held is the    *)
(* mutex and whether it is held for writing (RLock: not).                  *)
(***************************************************************************)
Lockable(mu, w) ==
    \A t \in LockTasks : \A i \in 1..Len(mx.held[t]) :
        mx.held[t][i].mu = mu => ~w /\ ~mx.held[t][i].w

Acquire(m, t, mu, w) == [m EXCEPT !.held[t] = Append(@, [mu |-> mu, w |-> w])]

\* every Unlock in the code releases the mutex taken last
Release(m, t) == [m EXCEPT !.held[t] = SubSeq(@, 1, Len(@) - 1)]

MetricsOps ==
    [kind : {"register"}, id : StreamNames, sent : {0}, recv : {0}, timeout : {0}]
    \cup [kind : {"add"}, id : StreamNames, sent : {1}, recv : {0}, timeout : {0}]
    \cup [kind : {"cleanup"}, id : {""}, sent : {0}, recv : {0}, timeout : {TickStep}]

\* RegisterStream, AddBytes, Cleanup: m.mu.Lock()
MetricsCall(t, op) ==
    /\ mx.pc[t] = "idle"
    /\ mx.calls < MaxCalls
    /\ Lockable("registry", TRUE)
    /\ mx' = [Acquire(mx, t, "registry", TRUE) EXCEPT
                !.pc[t] = op.kind, !.op[t] = op, !.calls = @ + 1,
                !.now[t] = IF op.kind = "cleanup" THEN clock.now ELSE 0,
                !.todo[t] = IF op.kind = "cleanup"
                            THEN {id \in StreamNames : mx.streams[id].present}
                            ELSE {}]
    /\ UNCHANGED <<cfg, srv, wsVars, quicVars, auth, pu, cl, clock, cp, tlsm>>

\* RegisterStream: the entry is made unless it exists; deferred m.mu.Unlock()
RegisterStream(t) ==
    /\ mx.pc[t] = "register"
    /\ LET id == mx.op[t].id
       IN  mx' = [Release(mx, t) EXCEPT
                    !.pc[t] = "idle", !.op[t] = NoOp,
                    !.streams[id] = IF @.present THEN @
                                    ELSE [StreamNone EXCEPT !.present = TRUE,
                                                            !.LastActive = clock.now]]
    /\ UNCHANGED <<cfg, srv, wsVars, quicVars, auth, pu, cl, clock, cp, tlsm>>

\* AddBytes: the lookup, and s.mu.Lock() with m.mu held; an unknown id returns
AddBytesLock(t) ==
    /\ mx.pc[t] = "add"
    /\ LET id == mx.op[t].id
       IN  IF mx.streams[id].present
           THEN /\ Lockable(id, TRUE)
                /\ mx' = [Acquire(mx, t, id, TRUE) EXCEPT !.pc[t] = "adding"]
           ELSE mx' = [Release(mx, t) EXCEPT !.pc[t] = "idle", !.op[t] = NoOp]
    /\ UNCHANGED <<cfg, srv, wsVars, quicVars, auth, pu, cl, clock, cp, tlsm>>

\* AddBytes: the counters, s.mu.Unlock(), deferred m.mu.Unlock()
AddBytes(t) ==
    /\ mx.pc[t] = "adding"
    /\ LET op == mx.op[t]
       IN  mx' = [Release(Release(mx, t), t) EXCEPT
                    !.pc[t] = "idle", !.op[t] = NoOp,
                    !.streams[op.id].BytesSent = @ + op.sent,
                    !.streams[op.id].BytesReceived = @ + op.recv,
                    !.streams[op.id].LastActive = clock.now]
    /\ UNCHANGED <<cfg, srv, wsVars, quicVars, auth, pu, cl, clock, cp, tlsm>>

\* Cleanup: the range loop reaches a stream, s.mu.Lock() with m.mu held
CleanupLock(t, id) ==
    /\ mx.pc[t] = "cleanup"
    /\ id \in mx.todo[t]
    /\ Lockable(id, TRUE)
    /\ mx' = [Acquire(mx, t, id, TRUE) EXCEPT !.pc[t] = "cleaning", !.cur[t] = id]
    /\ UNCHANGED <<cfg, srv, wsVars, quicVars, auth, pu, cl, clock, cp, tlsm>>

\* Cleanup: an idle stream is deleted, s.mu.Unlock()
CleanupUnlock(t) ==
    /\ mx.pc[t] = "cleaning"
    /\ LET id == mx.cur[t]
       IN  mx' = [Release(mx, t) EXCEPT
                    !.pc[t] = "cleanup", !.cur[t] = "",
                    !.todo[t] = @ \ {id},
                    !.streams[id] =
                        IF mx.now[t] - @.LastActive > mx.op[t].timeout
                        THEN StreamNone ELSE @]
    /\ UNCHANGED <<cfg, srv, wsVars, quicVars, auth, pu, cl, clock, cp, tlsm>>

\* Cleanup: the loop is over, deferred m.mu.Unlock()
CleanupReturn(t) ==
    /\ mx.pc[t] = "cleanup"
    /\ mx.todo[t] = {}
    /\ mx' = [Release(mx, t) EXCEPT !.pc[t] = "idle", !.op[t] = NoOp, !.now[t] = 0]
    /\ UNCHANGED <<cfg, srv, wsVars, quicVars, auth, pu, cl, clock, cp, tlsm>>

\* logger.SetLevel: globalMu.Lock()
SetLevelLock(level) ==
    /\ mx.pc["main"] = "idle"
    /\ level # mx.level
    /\ Lockable("level", TRUE)
    /\ mx' = [Acquire(mx, "main", "level", TRUE) EXCEPT
                !.pc["main"] = "setting", !.cur["main"] = level]
    /\ UNCHANGED <<cfg, srv, wsVars, quicVars, auth, pu, cl, clock, cp, tlsm>>

\* logger.SetLevel: the level, deferred globalMu.Unlock()
SetLevel ==
    /\ mx.pc["main"] = "setting"
    /\ mx' = [Release(mx, "main") EXCEPT
                !.pc["main"] = "idle", !.cur["main"] = "",
                !.level = mx.cur["main"]]
    /\ UNCHANGED <<cfg, srv, wsVars, quicVars, auth, pu, cl, clock, cp, tlsm>>

\* cleanupIdleSessions: the ticker fires, time.Now(), s.sessionsMu.Lock()
ScanLock ==
    /\ Started
    /\ clock.now >= clock.nextScan
    /\ mx.pc["reaper"] = "idle"
    /\ Lockable("sessions", TRUE)
    /\ clock' = [clock EXCEPT !.nextScan = @ + ScanPeriod]
    /\ mx' = [Acquire(mx, "reaper", "sessions", TRUE) EXCEPT
                !.pc["reaper"] = "scan",
                !.todo["reaper"] = {a \in QAddrs : Idle(a, clock.now)}]
    /\ UNCHANGED <<cfg, srv, wsVars, quicVars, auth, pu, cl, cp, tlsm>>

\* cleanupIdleSessions: s.log.Debug for an idle session: shouldLog takes
\* globalMu.RLock() with sessionsMu held
ScanLog(addr) ==
    /\ mx.pc["reaper"] = "scan"
    /\ addr \in mx.todo["reaper"]
    /\ Lockable("level", FALSE)
    /\ mx' = [Acquire(mx, "reaper", "level", FALSE) EXCEPT
                !.pc["reaper"] = "log", !.cur["reaper"] = addr]
    /\ UNCHANGED <<cfg, srv, wsVars, quicVars, auth, pu, cl, clock, cp, tlsm>>

\* cleanupIdleSessions: shouldLog returns (globalMu.RUnlock()), the session is
\* closed and its entry deleted
ScanClose ==
    /\ mx.pc["reaper"] = "log"
    /\ LET addr == mx.cur["reaper"]
           s == table[addr]
       IN  /\ qs' = [qs EXCEPT ![s] =
                        IF qs[s].closeCode = NoCode
                        THEN [qs[s] EXCEPT !.reaped = TRUE, !.closeCode = 0,
                                           !.closeReason = "idle timeout"]
                        ELSE qs[s]]
           /\ table' = [table EXCEPT ![addr] = 0]
           /\ mx' = [Release(mx, "reaper") EXCEPT
                        !.pc["reaper"] = "scan", !.cur["reaper"] = "",
                        !.todo["reaper"] = @ \ {addr}]
    /\ UNCHANGED <<cfg, srv, qb, qenv, auth, wsVars, pu, cl, clock, cp, tlsm>>

\* cleanupIdleSessions: the loop is over, s.sessionsMu.Unlock()
ScanUnlock ==
    /\ mx.pc["reaper"] = "scan"
    /\ mx.todo["reaper"] = {}
    /\ mx' = [Release(mx, "reaper") EXCEPT !.pc["reaper"] = "idle"]
    /\ UNCHANGED <<cfg, srv, wsVars, quicVars, auth, pu, cl, clock, cp, tlsm>>

\* handleQUICSession takes sessionsMu to enter and to delete its entry
QUICAcceptMu(s, addr) == Lockable("sessions", TRUE) /\ QUICAccept(s, addr)

QAcceptErrorMu(s) == Lockable("sessions", TRUE) /\ QAcceptError(s)

InitLocks ==
    /\ cfg = [AllowedTargets |-> <<>>, TCPPoolSize |-> 0]
    /\ ServerNew
    /\ env = [reqs |-> 0, msgs |-> 0, bytes |-> 0, adds |-> 0]
    /\ NoQUICPeers
    /\ NoPoolUsers
    /\ auth = AuthIdle

NextLocks ==
    \/ Start
    \/ \E t \in MetricsTasks, op \in MetricsOps : MetricsCall(t, op)
    \/ \E t \in MetricsTasks : RegisterStream(t)
    \/ \E t \in MetricsTasks : AddBytesLock(t)
    \/ \E t \in MetricsTasks : AddBytes(t)
    \/ \E t \in MetricsTasks, id \in StreamNames : CleanupLock(t, id)
    \/ \E t \in MetricsTasks : CleanupUnlock(t)
    \/ \E t \in MetricsTasks : CleanupReturn(t)
    \/ SetLevelLock("debug")
    \/ SetLevel
    \/ \E a \in QAddrs : QUICAcceptMu(1, a)
    \/ QAcceptErrorMu(1)
    \/ Tick
    \/ ScanLock
    \/ \E a \in QAddrs : ScanLog(a)
    \/ ScanClose
    \/ ScanUnlock

SpecLocks == InitLocks /\ [][NextLocks]_vars

(***************************************************************************)
(* The TLS manager beside the listeners.                                   *)
(***************************************************************************)
InitTLS ==
    /\ cfg = [AllowedTargets |-> <<>>, TCPPoolSize |-> 0]
    /\ ServerNew
    /\ env = [reqs |-> 0, msgs |-> 0, bytes |-> 0, adds |-> 0]
    /\ NoQUICPeers
    /\ NoPoolUsers
    /\ auth = AuthIdle

NextTLS ==
    \/ Start
    \/ TLSTick
    \/ TLSReceive
    \/ \E ok \in BOOLEAN : TLSRotate(ok)
    \/ \E d \in BOOLEAN : TLSStop(d)
    \/ \E l \in Listeners : HandshakeStart(l)
    \/ \E l \in Listeners : HandshakeDone(l)

SpecTLS == InitTLS /\ [][NextTLS]_vars

(***************************************************************************)
(* Server.Shutdown beside one WebSocket session and one QUIC session.      *)
(***************************************************************************)
\* Shutdown: http.Shutdown, which neither waits for nor closes hijacked
\* connections; quic.Close, which closes the listener and, by the library's
\* version, the connections accepted from it or not; tlsManager.Stop
Shutdown(closesSessions, drained) ==
    /\ srv.state = "serving"
    /\ srv' = [srv EXCEPT !.state = "stopped"]
    /\ qs' = [s \in SessionIds |->
                IF closesSessions /\ qs[s].pc = "accepting"
                THEN [qs[s] EXCEPT !.peerClosed = TRUE] ELSE qs[s]]
    /\ tlsm' = [tlsm EXCEPT !.stopped = TRUE,
                            !.tick = IF drained THEN FALSE ELSE @]
    /\ UNCHANGED <<cfg, wsVars, table, qb, qenv, auth, pu, cl, clock, cp, mx>>

InitShutdown ==
    /\ cfg = [AllowedTargets |-> <<>>, TCPPoolSize |-> 1]
    /\ ServerNew
    /\ env = [reqs |-> 1, msgs |-> 0, bytes |-> 0, adds |-> MaxAdds]
    /\ NoQUICPeers
    /\ NoPoolUsers
    /\ auth = AuthIdle

NextShutdown ==
    \/ Next
    \/ \E a \in QAddrs : QUICAccept(1, a)
    \/ QAcceptError(1)
    \/ QSessionClose(1)
    \/ Tick
    \/ ReaperScan
    \/ \E b, d \in BOOLEAN : Shutdown(b, d)

SpecShutdown == InitShutdown /\ [][NextShutdown]_vars

(***************************************************************************)
(* config.Parse: flags, the configuration file, merge, split, validate.    *)
(***************************************************************************)
A_Default == <<":", "8", "0", "8", "0">>  \* ":8080", the default of -addr
A_Cli == <<":", "9", "0", "0", "0">>  \* ":9000"
A_File == <<":", "7", "0", "0", "0">>  \* ":7000"
A_NoPort == <<"7", "0", "0", "0">>  \* "7000"
\* the default of -timeout, in seconds
DefaultTimeout == 60
\* other timeouts, in seconds
CliTimeout == 30
FileTimeout == 10
\* values of -allow
L_One == <<"a", ":", "1">>  \* "a:1"
L_Two == <<"a", ":", "1", ",", " ", "b", ":", "2">>  \* "a:1, b:2"

\* strings.TrimSpace
RECURSIVE TrimLeft(_)
TrimLeft(s) == IF Len(s) > 0 /\ Head(s) = " " THEN TrimLeft(Tail(s)) ELSE s

RECURSIVE TrimRight(_)
TrimRight(s) ==
    IF Len(s) > 0 /\ s[Len(s)] = " " THEN TrimRight(SubSeq(s, 1, Len(s) - 1)) ELSE s

TrimSpace(s) == TrimRight(TrimLeft(s))

\* strings.Split(s, ",")
RECURSIVE StringsSplit(_)
StringsSplit(s) ==
    LET i == IndexByte(s, ",")
    IN  IF i = 0 THEN <<s>>
        ELSE <<SubSeq(s, 1, i - 1)>> \o StringsSplit(SubSeq(s, i + 1, Len(s)))

\* split: nil for the empty string, else the trimmed parts
split(s) ==
    IF s = <<>> THEN <<>>
    ELSE LET parts == StringsSplit(s)
         IN  [i \in 1..Len(parts) |-> TrimSpace(parts[i])]

\* the flag set after flag.Parse: a flag not given has its default
Flags(cli) ==
    [Addr |-> IF cli.addrGiven THEN cli.addr ELSE A_Default,
     ReadTimeout |-> IF cli.timeoutGiven THEN cli.timeout ELSE DefaultTimeout,
     AllowedTargets |-> <<>>,
     allow |-> IF cli.allowGiven THEN cli.allow ELSE <<>>]

\* merge(dst, src)
merge(dst, src) ==
    LET a == IF dst.Addr = A_Default /\ src.Addr # <<>> THEN src.Addr ELSE dst.Addr
        l == IF Len(dst.AllowedTargets) = 0 /\ Len(src.AllowedTargets) > 0
             THEN src.AllowedTargets ELSE dst.AllowedTargets
        t == IF dst.ReadTimeout = DefaultTimeout /\ src.ReadTimeout # 0
             THEN src.ReadTimeout ELSE dst.ReadTimeout
    IN  [dst EXCEPT !.Addr = a, !.AllowedTargets = l, !.ReadTimeout = t]

\* Parse after flag.Parse: the file is merged if -config is given, then
\* AllowedTargets is assigned from -allow, then validate
Parse(cli, file) ==
    LET flags == Flags(cli)
        merged == IF cli.configGiven THEN merge(flags, file) ELSE flags
        final == [merged EXCEPT !.AllowedTargets = split(flags.allow)]
    IN  [Addr |-> final.Addr, AllowedTargets |-> final.AllowedTargets,
         ReadTimeout |-> final.ReadTimeout, exit |-> ~Contains(final.Addr, ":")]

\* command lines and files
CommandLines ==
    {[addrGiven |-> ag, addr |-> a, timeoutGiven |-> tg, timeout |-> t,
      allowGiven |-> lg, allow |-> l, configGiven |-> cg] :
        ag \in BOOLEAN, a \in {A_Default, A_Cli}, tg \in BOOLEAN,
        t \in {DefaultTimeout, CliTimeout}, lg \in BOOLEAN, l \in {L_One, L_Two},
        cg \in BOOLEAN}

ConfigFiles ==
    {[Addr |-> a, AllowedTargets |-> l, ReadTimeout |-> t] :
        a \in {<<>>, A_File, A_NoPort}, l \in {<<>>, <<T_SSH>>},
        t \in {0, FileTimeout}}

\* the process is started with a command line and a file
ReadArgs(cli, file) ==
    /\ cp.pc = "idle"
    /\ ~cli.addrGiven => cli.addr = A_Default
    /\ ~cli.timeoutGiven => cli.timeout = DefaultTimeout
    /\ ~cli.allowGiven => cli.allow = L_One
    /\ cp' = [pc |-> "args", cli |-> cli, file |-> file]
    /\ UNCHANGED <<cfg, srv, wsVars, quicVars, auth, pu, cl, clock, tlsm, mx>>

ConfigParse ==
    /\ cp.pc = "args"
    /\ cp' = [pc |-> "done", cli |-> cp.cli, file |-> cp.file,
              out |-> Parse(cp.cli, cp.file)]
    /\ UNCHANGED <<cfg, srv, wsVars, quicVars, auth, pu, cl, clock, tlsm, mx>>

InitConfig ==
    /\ cfg = [AllowedTargets |-> <<>>, TCPPoolSize |-> 0]
    /\ ServerNew
    /\ env = [reqs |-> 0, msgs |-> 0, bytes |-> 0, adds |-> 0]
    /\ NoQUICPeers
    /\ NoPoolUsers
    /\ auth = AuthIdle

NextConfig ==
    \/ \E cli \in CommandLines, file \in ConfigFiles : ReadArgs(cli, file)
    \/ ConfigParse

SpecConfig == InitConfig /\ [][NextConfig]_vars

(***************************************************************************)
(* Bridge.Close called from outside on a QUIC bridge, twice.               *)
(***************************************************************************)
\* one stream whose client writes a target
InitClose ==
    /\ cfg = [AllowedTargets |-> <<>>, TCPPoolSize |-> 0]
    /\ ServerNew
    /\ env = [reqs |-> 0, msgs |-> 0, bytes |-> 0, adds |-> 0]
    /\ qenv = [chunks |-> 1, bytes |-> MaxQBytes]
    /\ NoPoolUsers
    /\ auth = AuthIdle

\* what Close acts on: the two endpoints and the counters
EndState(b) ==
    [reset |-> b.reset, tcpClosed |-> b.tcpClosed,
     BytesSent |-> b.BytesSent, BytesReceived |-> b.BytesReceived]

\* Close up to b.wg.Wait(): CancelRead and CancelWrite on the stream, then
\* tcpConn.Close() if b.tcpConn is seen non-nil.  The field is read without
\* synchronisation: while the QUIC -> TCP goroutine runs, the read may come
\* before its assignment.
QCloseCall(s, k, seesConn) ==
    /\ qb[s][k].state = "open"
    /\ cl.phase = "idle"
    /\ cl.returned < 2
    /\ cl.slot \in {<<>>, <<s, k>>}
    /\ seesConn => qb[s][k].tcpConn # "nil"
    /\ ~seesConn => (qb[s][k].tcpConn = "nil" \/ qb[s][k].q2t = "run")
    /\ qb' = [qb EXCEPT ![s][k].reset = TRUE,
                        ![s][k].tcpClosed = @ \/ seesConn]
    /\ cl' = [cl EXCEPT !.phase = "waiting", !.slot = <<s, k>>,
                        !.pre = IF cl.returned = 1 THEN EndState(qb[s][k]) ELSE @]
    /\ UNCHANGED <<cfg, srv, qs, table, qenv, auth, wsVars, pu, clock, cp, tlsm, mx>>

\* b.wg.Wait() returns: both goroutines have exited
QCloseReturn ==
    /\ cl.phase = "waiting"
    /\ LET b == qb[cl.slot[1]][cl.slot[2]]
       IN  /\ b.q2t = "done"
           /\ b.t2q = "done"
           /\ cl' = [cl EXCEPT !.phase = "idle", !.returned = @ + 1,
                               !.post = IF cl.returned = 1 THEN EndState(b) ELSE @]
    /\ UNCHANGED <<cfg, srv, quicVars, auth, wsVars, pu, clock, cp, tlsm, mx>>

NextClose ==
    \/ NextQUIC
    \/ \E s \in QSessions, k \in QStreams, sees \in BOOLEAN : QCloseCall(s, k, sees)
    \/ QCloseReturn

SpecClose == InitClose /\ [][NextClose]_vars

(***************************************************************************)
(* The pool called directly: AddTargets, Get and Put one after the other.  *)
(***************************************************************************)
\* Get calls made, enough for the counter to wrap
MaxGets == CounterMod + 1

\* the pool of a new server; the build's int is wider than the counter or not
InitPool ==
    /\ cfg \in {[AllowedTargets |-> <<>>, TCPPoolSize |-> n] : n \in 0..MaxPoolSize}
    /\ ServerNew
    /\ env = [reqs |-> 0, msgs |-> 0, bytes |-> 0, adds |-> MaxAdds]
    /\ NoQUICPeers
    /\ pu \in {[PoolUsersNone EXCEPT !.wide = w] : w \in BOOLEAN}
    /\ auth = AuthIdle

\* Get(logical), the dial included; dialOK is the outcome of net.DialTimeout
\* if it is reached
PoolGet(logical, dialOK) ==
    /\ pu.gets < MaxGets
    /\ ~pu.panicked
    /\ LET called == [pu EXCEPT !.gets = @ + 1,
                                !.op = [kind |-> "get", key |-> logical, conn |-> NoConn]]
       IN  IF logical \notin pool.registered \/ Len(pool.backends[logical]) = 0
           THEN /\ dialOK
                /\ pu' = called
                /\ UNCHANGED <<pool, tcp>>
           ELSE LET idx == AddUint32(pool.counters[logical])
                    n == Len(pool.backends[logical])
                    i == PickIndex(idx, n, pu.wide)
                    picked == [called EXCEPT !.picks = @ \cup
                                  {[logical |-> logical, n |-> n,
                                    before |-> pool.counters[logical], pick |-> i]}]
                IN  IF i < 0
                    THEN \* index out of range: the goroutine panics
                         /\ dialOK
                         /\ pu' = [picked EXCEPT !.panicked = TRUE]
                         /\ pool' = [pool EXCEPT !.counters[logical] = idx]
                         /\ UNCHANGED tcp
                    ELSE LET backend == pool.backends[logical][i + 1]
                             conns == pool.conns[backend]
                         IN  IF Len(conns) > 0
                             THEN /\ dialOK
                                  /\ pool' = [pool EXCEPT
                                        !.counters[logical] = idx,
                                        !.conns[backend] = SubSeq(conns, 1, Len(conns) - 1)]
                                  /\ pu' = [picked EXCEPT !.held = @ \cup {conns[Len(conns)]},
                                                          !.op.conn = conns[Len(conns)]]
                                  /\ UNCHANGED tcp
                             ELSE IF dialOK
                             THEN /\ pool.dials < MaxConns
                                  /\ LET c == pool.dials + 1
                                     IN  /\ tcp' = [tcp EXCEPT ![c] =
                                                [ConnNone EXCEPT !.backend = backend,
                                                                 !.dialed = TRUE,
                                                                 !.open = TRUE]]
                                         /\ pool' = [pool EXCEPT !.counters[logical] = idx,
                                                                 !.dials = c]
                                         /\ pu' = [picked EXCEPT !.held = @ \cup {c},
                                                                 !.op.conn = c]
                             ELSE /\ pool' = [pool EXCEPT !.counters[logical] = idx]
                                  /\ pu' = picked
                                  /\ UNCHANGED tcp
    /\ UNCHANGED <<cfg, srv, wsh, env, auth, quicVars, aux>>

\* Put(key, conn) with a connection the caller holds, tcp_pool_size too large
PoolPutAlwaysPush(key, c) ==
    /\ c \in pu.held
    /\ ~pu.panicked
    /\ pool' = [pool EXCEPT !.conns[key] = Append(@, c)]
    /\ pu' = [pu EXCEPT !.held = @ \ {c},
                        !.op = [kind |-> "put", key |-> key, conn |-> c]]
    /\ UNCHANGED <<cfg, srv, wsh, tcp, env, auth, quicVars, aux>>

\* Put(key, conn) with a connection the caller holds
PoolPutDirect(key, c) ==
    /\ c \in pu.held
    /\ ~pu.panicked
    /\ IF Len(pool.conns[key]) >= cfg.TCPPoolSize
       THEN /\ tcp' = [tcp EXCEPT ![c].open = FALSE, ![c].discarded = TRUE]
            /\ UNCHANGED pool
       ELSE /\ pool' = [pool EXCEPT !.conns[key] = Append(@, c)]
            /\ UNCHANGED tcp
    /\ pu' = [pu EXCEPT !.held = @ \ {c},
                        !.op = [kind |-> "put", key |-> key, conn |-> c]]
    /\ UNCHANGED <<cfg, srv, wsh, env, auth, quicVars, aux>>

\* the logical targets asked for: the registered ones and one never registered
PoolLogicals == {r.logical : r \in Registrations} \cup {T_Out}

NextPool ==
    \/ \E r \in Registrations : AddTargets(r.logical, r.targets)
    \/ \E l \in PoolLogicals, ok \in BOOLEAN : PoolGet(l, ok)
    \/ \E key \in PoolAddrs, c \in ConnIds : PoolPutDirect(key, c)

SpecPool == InitPool /\ [][NextPool]_vars

(***************************************************************************)
(* The pool lock by lock: p.mu.Lock(), what is done with the mutex held,   *)
(* p.mu.Unlock(), and the I/O on connections (net.DialTimeout, conn.Close) *)
(* are steps of their own.                                                 *)
(***************************************************************************)
\* Get: p.mu.Lock()
GetLock(t, logical) ==
    /\ mx.pc[t] = "idle"
    /\ pu.gets < MaxGets
    /\ Lockable("pool", TRUE)
    /\ mx' = [Acquire(mx, t, "pool", TRUE) EXCEPT
                !.pc[t] = "get", !.call[t].key = logical]
    /\ pu' = [pu EXCEPT !.gets = @ + 1]
    /\ UNCHANGED <<cfg, srv, wsVars, quicVars, auth, cl, clock, cp, tlsm>>

\* Get with the mutex held, up to p.mu.Unlock(): no backends, a pooled
\* connection, or the decision to dial
GetUnlock(t) ==
    /\ mx.pc[t] = "get"
    /\ LET logical == mx.call[t].key
       IN  IF logical \notin pool.registered \/ Len(pool.backends[logical]) = 0
           THEN /\ mx' = [Release(mx, t) EXCEPT !.pc[t] = "idle", !.call[t] = NoCall]
                /\ UNCHANGED <<pool, pu>>
           ELSE IF PickIndex(AddUint32(pool.counters[logical]),
                             Len(pool.backends[logical]), pu.wide) < 0
           THEN \* index out of range: the goroutine panics, the mutex stays locked
                /\ pool' = [pool EXCEPT !.counters[logical] = AddUint32(@)]
                /\ mx' = [mx EXCEPT !.pc[t] = "panicked"]
                /\ pu' = [pu EXCEPT !.panicked = TRUE]
           ELSE LET backend == pool.backends[logical][
                                   PickIndex(AddUint32(pool.counters[logical]),
                                             Len(pool.backends[logical]), pu.wide) + 1]
                    conns == pool.conns[backend]
                IN  /\ pool' = [pool EXCEPT
                            !.counters[logical] = AddUint32(@),
                            !.conns[backend] =
                                IF Len(conns) > 0
                                THEN SubSeq(conns, 1, Len(conns) - 1) ELSE conns]
                    /\ IF Len(conns) > 0
                       THEN /\ mx' = [Release(mx, t) EXCEPT
                                        !.pc[t] = "idle", !.call[t] = NoCall]
                            /\ pu' = [pu EXCEPT !.held = @ \cup {conns[Len(conns)]}]
                       ELSE /\ mx' = [Release(mx, t) EXCEPT
                                        !.pc[t] = "dial", !.call[t].key = backend]
                            /\ UNCHANGED pu
    /\ UNCHANGED <<cfg, srv, wsh, tcp, env, quicVars, auth, cl, clock, cp, tlsm>>

\* Get: net.DialTimeout("tcp", backend, 5s)
GetDial(t, ok) ==
    /\ mx.pc[t] = "dial"
    /\ ok => pool.dials < MaxConns
    /\ IF ok
       THEN LET c == pool.dials + 1
            IN  /\ tcp' = [tcp EXCEPT ![c] =
                        [ConnNone EXCEPT !.backend = mx.call[t].key,
                                         !.dialed = TRUE, !.open = TRUE]]
                /\ pool' = [pool EXCEPT !.dials = c]
                /\ pu' = [pu EXCEPT !.held = @ \cup {c}]
       ELSE UNCHANGED <<tcp, pool, pu>>
    /\ mx' = [mx EXCEPT !.pc[t] = "idle", !.call[t] = NoCall]
    /\ UNCHANGED <<cfg, srv, wsh, env, quicVars, auth, cl, clock, cp, tlsm>>

\* Put: p.mu.Lock(), with a connection the caller holds
PutLock(t, key, c) ==
    /\ mx.pc[t] = "idle"
    /\ c \in pu.held
    /\ Lockable("pool", TRUE)
    /\ mx' = [Acquire(mx, t, "pool", TRUE) EXCEPT
                !.pc[t] = "put", !.call[t] = [key |-> key, conn |-> c]]
    /\ pu' = [pu EXCEPT !.held = @ \ {c}]
    /\ UNCHANGED <<cfg, srv, wsVars, quicVars, auth, cl, clock, cp, tlsm>>

\* Put with the mutex held: the length test; the connection is pushed and the
\* deferred p.mu.Unlock() runs, or conn.Close() is next
PutTest(t) ==
    /\ mx.pc[t] = "put"
    /\ LET key == mx.call[t].key
       IN  IF Len(pool.conns[key]) >= cfg.TCPPoolSize
           THEN /\ mx' = [mx EXCEPT !.pc[t] = "close"]
                /\ UNCHANGED pool
           ELSE /\ pool' = [pool EXCEPT !.conns[key] = Append(@, mx.call[t].conn)]
                /\ mx' = [Release(mx, t) EXCEPT !.pc[t] = "idle", !.call[t] = NoCall]
    /\ UNCHANGED <<cfg, srv, wsh, tcp, env, quicVars, auth, pu, cl, clock, cp, tlsm>>

\* Put: conn.Close(), return, the deferred p.mu.Unlock()
PutClose(t) ==
    /\ mx.pc[t] = "close"
    /\ tcp' = [tcp EXCEPT ![mx.call[t].conn].open = FALSE,
                          ![mx.call[t].conn].discarded = TRUE]
    /\ mx' = [Release(mx, t) EXCEPT !.pc[t] = "idle", !.call[t] = NoCall]
    /\ UNCHANGED <<cfg, srv, wsh, pool, env, quicVars, auth, pu, cl, clock, cp, tlsm>>

\* AddTargets holds the mutex from its first to its last statement
AddTargetsMu(logical, targets) ==
    Lockable("pool", TRUE) /\ AddTargets(logical, targets)

NextPoolIO ==
    \/ \E r \in Registrations : AddTargetsMu(r.logical, r.targets)
    \/ \E t \in PoolTasks, l \in PoolLogicals : GetLock(t, l)
    \/ \E t \in PoolTasks : GetUnlock(t)
    \/ \E t \in PoolTasks, ok \in BOOLEAN : GetDial(t, ok)
    \/ \E t \in PoolTasks, key \in PoolAddrs, c \in ConnIds : PutLock(t, key, c)
    \/ \E t \in PoolTasks : PutTest(t)
    \/ \E t \in PoolTasks : PutClose(t)

SpecPoolIO == InitPool /\ [][NextPoolIO]_vars

(***************************************************************************)
(* The authorizer on its own: compile a list, then evaluate a target.      *)
(***************************************************************************)
InitAuth ==
    /\ auth \in {[pc |-> "input", list |-> l, target |-> t, rules |-> <<>>,
                 err |-> FALSE, allowed |-> FALSE] : l \in AuthLists, t \in AuthTargets}
    /\ cfg = [AllowedTargets |-> <<>>, TCPPoolSize |-> 0]
    /\ ServerNew
    /\ env = [reqs |-> 0, msgs |-> 0, bytes |-> 0, adds |-> 0]
    /\ NoQUICPeers
    /\ NoPoolUsers

AuthCompile ==
    /\ auth.pc = "input"
    /\ auth' = [auth EXCEPT !.pc = IF compileRules(auth.list).err
                                    THEN "failed" ELSE "compiled",
                            !.rules = compileRules(auth.list).rules,
                            !.err = compileRules(auth.list).err]
    /\ UNCHANGED <<cfg, srv, wsVars, quicVars, pu, aux>>

AuthEvaluate ==
    /\ auth.pc = "compiled"
    /\ auth' = [auth EXCEPT !.pc = "done",
                            !.allowed = isAllowedEnhanced(auth.rules, auth.target)]
    /\ UNCHANGED <<cfg, srv, wsVars, quicVars, pu, aux>>

NextAuth == AuthCompile \/ AuthEvaluate

SpecAuth == InitAuth /\ [][NextAuth]_vars


(***************************************************************************)
(* Properties.                                                             *)
(***************************************************************************)
IsPrefix(a, b) == Len(a) <= Len(b) /\ SubSeq(b, 1, Len(a)) = a

\* C2: an allow-list with an entry that does not compile aborts startup: the
\* server never serves with it.
C2_CompileErrorIsFatal ==
    srv.state = "serving" => ~compileRules(cfg.AllowedTargets).err

\* C3: a request without a target is answered 400, a request whose target the
\* authorizer denies is answered 403, and in both cases the handler has
\* returned without upgrading and without asking the pool for a connection.
C3_RejectBeforeUpgrade ==
    \A h \in Handlers :
        wsh[h].pc # "idle" =>
            LET x == extractTarget(wsh[h].req)
                rejected == wsh[h].resp \in {"400 missing target",
                                             "403 target not allowed"}
            IN  /\ ~x.ok => wsh[h].resp = "400 missing target"
                /\ (x.ok /\ ~isAllowedEnhanced(srv.rules, x.target))
                       => wsh[h].resp = "403 target not allowed"
                /\ rejected => /\ wsh[h].pc = "done"
                               /\ ~wsh[h].upgraded
                               /\ ~wsh[h].poolAsked
                               /\ wsh[h].conn = NoConn

C3_Witness ==
    \E h, g \in Handlers :
        /\ wsh[h].resp = "400 missing target"
        /\ wsh[g].resp = "403 target not allowed"
        /\ wsh[g].target = T_Out

\* the handlers (their bridges) holding connection c
Owners(c) ==
    {h \in Handlers : wsh[h].conn = c /\ wsh[h].pc \in {"bridging", "put"}}

InIdleOfBackend(c) ==
    \E i \in 1..Len(pool.conns[tcp[c].backend]) : pool.conns[tcp[c].backend][i] = c

\* C4: every connection handed out by the pool (and not discarded by Put) is
\* owned by exactly one bridge or rests in the idle stack of its backend,
\* never both and never neither.
C4_OwnedOrIdle ==
    \A c \in ConnIds :
        (tcp[c].dialed /\ ~tcp[c].discarded) =>
            \/ Cardinality(Owners(c)) = 1 /\ ~InIdleOfBackend(c)
            \/ Owners(c) = {} /\ InIdleOfBackend(c)

\* C5: the close frame 1011 "connect failed" is sent only when the connection
\* to the backend could not be established.
C5_ConnectFailedOnlyOnDialFailure ==
    \A h \in Handlers : wsh[h].close1011 => wsh[h].dialFailed

\* C6: in each direction of a bridge the bytes delivered are at every moment
\* a prefix of the bytes read from the source, and all of them once the
\* direction has ended by the source's close.
C6_ByteFidelity ==
    \A h \in Handlers :
        /\ IsPrefix(wsh[h].tcpWritten, wsh[h].wsRead)
        /\ IsPrefix(wsh[h].wsOut, wsh[h].tcpRead)
        /\ wsh[h].w2tExit = "eof" => wsh[h].tcpWritten = wsh[h].wsRead
        /\ wsh[h].t2wExit = "eof" => wsh[h].wsOut = wsh[h].tcpRead

\* the steps the server can take for handler h without any act of a peer
ServerStep(h) ==
    \/ \E n \in 1..MaxBytes : T2WStep(h, n)
    \/ W2TStep(h)
    \/ W2TTimeout(h)
    \/ HandlerClose(h)

\* C7: once one copy direction of a bridge has exited, the bridge can finish
\* without any further act of a peer: the other direction is made to exit.
C7_ExitClosesOpposite ==
    \A h \in Handlers :
        (wsh[h].pc = "bridging" /\ (wsh[h].t2w = "done" \/ wsh[h].w2t = "done"))
            => ENABLED ServerStep(h)

\* an allow-list entry matches a target: a CIDR entry by the host's address,
\* a wildcard entry by the whole target, an entry with a port by equality,
\* any other entry by the host alone
EntryMatches(e, target) ==
    LET host == SplitHostPort(target)
    IN  IF Contains(e, "/")
        THEN ParseIP(host) # <<>> /\ NetContains(ParseCIDR(e).net, ParseIP(host))
        ELSE IF Contains(e, "*") \/ Contains(e, "?")
        THEN MatchString(WildcardPattern(e), target)
        ELSE IF Contains(e, ":")
        THEN target = e
        ELSE host = e

\* C10: a target is allowed iff the list is empty or one of its entries
\* matches it.
C10_AllowedIffSomeEntryMatches ==
    auth.pc = "done" =>
        (auth.allowed <=>
            \/ Len(auth.list) = 0
            \/ \E i \in 1..Len(auth.list) : EntryMatches(auth.list[i], auth.target))

C10_Witness ==
    /\ auth.pc = "done"
    /\ auth.list = <<E_Cidr24, E_Domain>>
    /\ auth.target = T_Db22
    /\ auth.allowed


QBridgeSlots == SessionIds \X QStreams

\* C1: no QUIC bridge dials a target that the authorizer, run on the compiled
\* allow-list, denies.
C1_AuthorizedBeforeDial ==
    \A sk \in QBridgeSlots :
        LET b == qb[sk[1]][sk[2]]
        IN  b.dialed => isAllowedEnhanced(srv.rules, b.dialTarget)

\* a step of the bridge's goroutines that changes something
QBridgeProgress(s, k) ==
    \/ \E n \in 1..MaxCoalesce, ok \in BOOLEAN : Q2TStep(s, k, n, ok)
    \/ \E n \in 1..MaxQBytes : T2QStep(s, k, n)
    \/ QCleanup(s, k)

\* C8: a QUIC bridge whose QUIC -> TCP task has ended without a TCP connection
\* (dial failed, or the stream ended before a target arrived) has been reset
\* and removed from the stream map, or a task of the bridge can still move
\* towards that.
C8_DialFailureConfined ==
    \A sk \in QBridgeSlots :
        LET b == qb[sk[1]][sk[2]]
        IN  (b.q2t = "done" /\ b.tcpConn = "nil") =>
                \/ (b.reset /\ ~b.inMap)
                \/ ENABLED QBridgeProgress(sk[1], sk[2])

\* C9: in a QUIC bridge the first chunk read is the target and the address
\* dialed; the bytes written to TCP are the chunks read after it, unchanged and
\* in order (all of them unless a write failed), and BytesReceived counts
\* exactly those chunks.
C9_FirstChunkIsTarget ==
    \A sk \in QBridgeSlots :
        LET b == qb[sk[1]][sk[2]]
            later == Flatten(Tail(b.readChunks))
        IN  /\ b.readChunks = <<>> =>
                /\ b.dialTarget = <<>> /\ ~b.dialed /\ ~b.dialFailed
                /\ b.fwd = <<>> /\ b.BytesReceived = 0
            /\ b.readChunks # <<>> =>
                /\ b.target = b.readChunks[1]
                /\ b.dialTarget = b.readChunks[1]
                /\ b.dialed \/ b.dialFailed
                /\ IsPrefix(b.fwd, later)
                /\ b.q2tExit # "werr" => b.fwd = later
                /\ b.BytesReceived = Len(later)

C9_Witness ==
    \E sk \in QBridgeSlots :
        LET b == qb[sk[1]][sk[2]]
        IN  /\ b.dialed
            /\ Len(b.readChunks) = 3
            /\ b.fwd = DataChunk(2) \o DataChunk(3)
            /\ b.BytesReceived = 4

\* a wildcard entry read as a glob: '*' any string, '?' any one character,
\* every other character itself, the whole target covered
RECURSIVE GlobMatch(_, _)
GlobMatch(p, s) ==
    IF Len(p) = 0 THEN Len(s) = 0
    ELSE IF p[1] = "*"
         THEN \E n \in 0..Len(s) : GlobMatch(Tail(p), SubSeq(s, n + 1, Len(s)))
    ELSE IF Len(s) = 0 THEN FALSE
    ELSE IF p[1] = "?" THEN GlobMatch(Tail(p), Tail(s))
    ELSE p[1] = s[1] /\ GlobMatch(Tail(p), Tail(s))

IsWildcardEntry(e) == ~Contains(e, "/") /\ ContainsAny(e, {"*", "?"})

\* C11: a list of one wildcard entry allows exactly the targets the entry
\* matches as an anchored glob, '*' standing for any string and '?' for any
\* one character.
C11_WildcardIsGlob ==
    (auth.pc = "done" /\ Len(auth.list) = 1 /\ IsWildcardEntry(auth.list[1]))
        => (auth.allowed <=> GlobMatch(auth.list[1], auth.target))

\* isAllowedEnhanced over the first k entries of the list given
AllowedByPrefix(list, k) ==
    isAllowedEnhanced(compileRules(SubSeq(list, 1, k)).rules, auth.target)

\* C12 as stated: a target allowed by any leading part of the list, the empty
\* one included, is allowed by the whole list.
C12_MonotoneFromEmpty ==
    auth.pc = "done" =>
        \A k \in 0..Len(auth.list) :
            AllowedByPrefix(auth.list, k) => auth.allowed

\* C12: a target allowed by a non-empty leading part of the list is allowed
\* by the whole list.
C12_MonotoneNonEmpty ==
    auth.pc = "done" =>
        \A k \in 1..Len(auth.list) :
            AllowedByPrefix(auth.list, k) => auth.allowed

C12_Witness ==
    /\ auth.pc = "done"
    /\ auth.list = <<E_Domain, E_Cidr24>>
    /\ auth.target = T_Db22
    /\ AllowedByPrefix(auth.list, 1)
    /\ auth.allowed

\* C13: every Get on a logical target with n backends selects the backend at
\* index (counter before the increment) mod n.
C13_RoundRobin ==
    \A p \in pu.picks : p.pick = p.before % p.n

\* the step is a call of Put: the caller gives up the connection it held
PutStep ==
    /\ pu'.op.kind = "put"
    /\ pu'.op.conn \in pu.held \ pu'.held

\* the step taken was Put(key, c): its effect on the stacks and on c
PutEffect(key, c) ==
    /\ IF Len(pool.conns[key]) < cfg.TCPPoolSize
       THEN /\ pool'.conns[key] = Append(pool.conns[key], c)
            /\ tcp'[c] = tcp[c]
       ELSE /\ pool'.conns[key] = pool.conns[key]
            /\ ~tcp'[c].open
    /\ \A a \in PoolAddrs \ {key} : pool'.conns[a] = pool.conns[a]

\* C14: Put pushes the connection iff the stack of its key holds fewer than
\* tcp_pool_size connections, otherwise closes it and leaves the stack alone;
\* no other stack changes, and no stack ever holds more than tcp_pool_size.
C14_PutBounded ==
    /\ [](\A a \in PoolAddrs : Len(pool.conns[a]) <= cfg.TCPPoolSize)
    /\ [][PutStep => PutEffect(pu'.op.key, pu'.op.conn)]_vars

C14_Witness ==
    /\ cfg.TCPPoolSize = 1
    /\ \E c, d \in ConnIds :
        /\ c # d
        /\ tcp[c].dialed /\ tcp[d].dialed
        /\ pu.op = [kind |-> "put", key |-> tcp[d].backend, conn |-> d]
        /\ pool.conns[tcp[c].backend] = <<c>>
        /\ tcp[c].backend = tcp[d].backend
        /\ tcp[d].discarded

\* C15: when a session ended by its client's close and a later session to
\* the same target is served with the connection the first returned to the
\* pool, one dial has been made and that connection is still open.
C15_ReusedConnectionOpen ==
    \A h, g \in Handlers :
        (/\ h # g
         /\ wsh[g].pc = "done" /\ wsh[g].w2tExit = "eof"
         /\ wsh[h].pc = "bridging"
         /\ wsh[h].target = wsh[g].target
         /\ wsh[h].conn = wsh[g].conn)
            => (pool.dials = 1 /\ tcp[wsh[h].conn].open)

\* C16: every connection resting in an idle stack is open, and the bridge
\* that returned it ended by a peer's close, not by a timeout or an error.
C16_OnlyCleanOpenPooled ==
    \A a \in PoolAddrs :
        \A i \in 1..Len(pool.conns[a]) :
            LET c == pool.conns[a][i]
            IN  /\ tcp[c].open
                /\ \A g \in Handlers :
                    (wsh[g].conn = c /\ wsh[g].pc = "done") =>
                        /\ wsh[g].w2tExit \notin {"timeout", "err", "malformed"}
                        /\ wsh[g].t2wExit \notin {"err", "werr"}

\* C17: a second Close, called after the first has returned, returns having
\* left the endpoints and the counters as it found them.
C17_SecondCloseChangesNothing ==
    cl.returned = 2 => cl.post = cl.pre

\* C18: the WS -> TCP direction never ends because of a message it drops (a
\* non-binary message, a frame of another stream, a malformed frame).
C18_DroppedMessageNotFatal ==
    \A h \in Handlers :
        wsh[h].w2t = "done" => wsh[h].w2tExit \in {"eof", "err", "timeout"}

\* C19: the stream map has no entry for a stream not accepted, and the entry
\* of an accepted stream is there as long as one of its copy tasks runs: it is
\* gone only when both have completed.
C19_InMapUntilBothDone ==
    \A sk \in QBridgeSlots :
        LET b == qb[sk[1]][sk[2]]
        IN  /\ b.state = "none" => ~b.inMap
            /\ (b.state = "open" /\ ~b.inMap) => (b.q2t = "done" /\ b.t2q = "done")

C19_Witness ==
    \E sk, tk \in QBridgeSlots :
        /\ qb[sk[1]][sk[2]].state = "open" /\ ~qb[sk[1]][sk[2]].inMap
        /\ qb[tk[1]][tk[2]].inMap
        /\ qb[tk[1]][tk[2]].q2t = "done" /\ qb[tk[1]][tk[2]].t2q = "run"

\* one firing of the reaper's ticker
ScanStep == clock'.nextScan # clock.nextScan

\* the accept loop of session s is running
SessionLive(s) == qs[s].pc = "accepting"

\* at every scan, each entry of the table whose session's lastActive is more
\* than 30 s old is closed with code 0 and deleted in that scan, and every
\* other entry and its session are left as they were
TableEntriesReaped ==
    [][ScanStep =>
        \A a \in QAddrs :
            table[a] # 0 =>
                IF clock.now - qs[table[a]].lastActive > IdleLimit
                THEN /\ table'[a] = 0
                     /\ qs'[table[a]].closeCode = 0
                     /\ qs'[table[a]].reaped \/ qs[table[a]].closeCode = 0
                ELSE /\ table'[a] = table[a]
                     /\ qs'[table[a]] = qs[table[a]]]_vars

\* C20: at every scan of the reaper, each live session whose lastActive is
\* more than 30 s old is closed with code 0 and is not in the session table
\* after the scan, and no session whose lastActive is within 30 s is closed or
\* removed by the scan.
C20_IdleSessionsReaped ==
    [][ScanStep =>
        \A s \in SessionIds :
            SessionLive(s) =>
                IF clock.now - qs[s].lastActive > IdleLimit
                THEN /\ qs'[s].closeCode = 0
                     /\ \A a \in QAddrs : table'[a] # s
                ELSE /\ qs'[s] = qs[s]
                     /\ \A a \in QAddrs : table[a] = s => table'[a] = s]_vars

\* bytes have moved on bridge k of session s within the idle limit
RecentTraffic(s, k) ==
    /\ qb[s][k].state = "open"
    /\ qb[s][k].BytesSent + qb[s][k].BytesReceived > 0
    /\ clock.now - qb[s][k].lastMove <= IdleLimit

\* C21: lastActive is refreshed whenever bytes move on a bridge of the
\* session, and so no scan of the reaper closes or removes a live session on
\* one of whose bridges bytes have moved within the last 30 s.
C21_TrafficKeepsSession ==
    /\ [][\A s \in SessionIds, k \in QStreams :
            (qb'[s][k].BytesSent + qb'[s][k].BytesReceived
                # qb[s][k].BytesSent + qb[s][k].BytesReceived)
            => qs'[s].lastActive = clock.now]_vars
    /\ [][ScanStep =>
            \A s \in SessionIds :
                (SessionLive(s) /\ \E k \in QStreams : RecentTraffic(s, k))
                => /\ qs'[s] = qs[s]
                   /\ \A a \in QAddrs : table[a] = s => table'[a] = s]_vars

\* C22: the WebSocket -> TCP direction ends by timeout only when nothing was
\* read from the WebSocket for read_timeout, and a TCP -> WebSocket direction
\* does not keep running once nothing was read from the TCP side for longer
\* than read_timeout.
C22_IdleDeadline ==
    /\ [][\A h \in Handlers :
            (wsh[h].w2t = "run" /\ wsh'[h].w2tExit = "timeout")
            => clock.now - wsh[h].wsLastRead >= ReadTimeout]_vars
    /\ [](\A h \in Handlers :
            wsh[h].t2w = "run" => clock.now - wsh[h].tcpLastRead <= ReadTimeout)

\* C23: while the manager is running a step either leaves the certificate or
\* replaces it by a freshly generated one; a stopped manager stays stopped and
\* its certificate is never replaced again.
C23_RotationStateMachine ==
    /\ [][tlsm'.cert # tlsm.cert => (~tlsm.stopped /\ tlsm'.cert = tlsm.gen + 1)]_vars
    /\ [][tlsm.stopped => tlsm'.stopped]_vars

\* what the code keeps of C23: every replacement is by a fresh certificate,
\* and Stopped is terminal
RotationIsFresh ==
    /\ [][tlsm'.cert # tlsm.cert => tlsm'.cert = tlsm.gen + 1]_vars
    /\ [][tlsm.stopped => tlsm'.stopped]_vars

\* C24: every handshake is answered with the certificate that was the
\* manager's current one when the handshake started.
C24_HandshakeServesCurrent ==
    \A l \in Listeners :
        tlsm.hs[l].state # "none" => tlsm.hs[l].cert = tlsm.hs[l].current

\* C25: once Shutdown has returned, no handler or session is accepted, no
\* bridge copy task and no QUIC session is running, the pool holds no open
\* connection, and the reaper does not act again.
C25_ShutdownStopsEverything ==
    /\ [](srv.state = "stopped" =>
            /\ \A h \in Handlers : wsh[h].t2w # "run" /\ wsh[h].w2t # "run"
            /\ \A s \in SessionIds : ~SessionLive(s)
            /\ \A a \in PoolAddrs : \A i \in 1..Len(pool.conns[a]) :
                    ~tcp[pool.conns[a][i]].open)
    /\ [][srv.state = "stopped" =>
            /\ ~ScanStep
            /\ \A h \in Handlers : wsh[h].pc = "idle" => wsh'[h].pc = "idle"
            /\ \A s \in SessionIds : qs[s].pc = "none" => qs'[s].pc = "none"]_vars

\* what Shutdown does achieve: nothing new is accepted
AcceptorsStopped ==
    [][srv.state = "stopped" =>
        /\ \A h \in Handlers : wsh[h].pc = "idle" => wsh'[h].pc = "idle"
        /\ \A s \in SessionIds : qs[s].pc = "none" => qs'[s].pc = "none"]_vars

\* the value the precedence rule gives: the flag's, else the file's, else the
\* default
Precedence(given, flagValue, fileSet, fileValue, default) ==
    IF given THEN flagValue ELSE IF fileSet THEN fileValue ELSE default

\* C26: for addr, allowed_targets and timeout the effective value is the
\* command line's when the flag is given, otherwise the file's when the file
\* sets it, otherwise the default.
C26_Precedence ==
    (cp.pc = "done" /\ ~cp.out.exit) =>
        LET cli == cp.cli
            file == cp.file
            has == cli.configGiven
        IN  /\ cp.out.Addr =
                 Precedence(cli.addrGiven, cli.addr,
                            has /\ file.Addr # <<>>, file.Addr, A_Default)
            /\ cp.out.ReadTimeout =
                 Precedence(cli.timeoutGiven, cli.timeout,
                            has /\ file.ReadTimeout # 0, file.ReadTimeout,
                            DefaultTimeout)
            /\ cp.out.AllowedTargets =
                 Precedence(cli.allowGiven, split(cli.allow),
                            has /\ file.AllowedTargets # <<>>, file.AllowedTargets,
                            <<>>)

\* what the code keeps of C26: with no file, or with flags whose values differ
\* from the defaults, addr and timeout follow the rule
PrecedenceOfAddrAndTimeout ==
    (/\ cp.pc = "done" /\ ~cp.out.exit
     /\ cp.cli.addrGiven => cp.cli.addr # A_Default
     /\ cp.cli.timeoutGiven => cp.cli.timeout # DefaultTimeout) =>
        LET cli == cp.cli
            file == cp.file
            has == cli.configGiven
        IN  /\ cp.out.Addr =
                 Precedence(cli.addrGiven, cli.addr,
                            has /\ file.Addr # <<>>, file.Addr, A_Default)
            /\ cp.out.ReadTimeout =
                 Precedence(cli.timeoutGiven, cli.timeout,
                            has /\ file.ReadTimeout # 0, file.ReadTimeout,
                            DefaultTimeout)


C28_OneMutexPerTask ==
    \A t \in LockTasks : Len(mx.held[t]) <= 1

MuKind(mu) == IF mu \in StreamNames THEN "stream" ELSE mu

\* the order in which a task that holds one mutex takes another
MuOrder ==
    {<<"registry", "stream">>, <<"sessions", "level">>}

\* mutexes are nested in one order only, and the order has no cycle
LockOrderAcyclic ==
    /\ \A t \in LockTasks : \A i, j \in 1..Len(mx.held[t]) :
            i < j => <<MuKind(mx.held[t][i].mu), MuKind(mx.held[t][j].mu)>> \in MuOrder
    /\ \A p, q \in MuOrder : p[2] # q[1]


HoldsPoolMu(t) == \E i \in 1..Len(mx.held[t]) : mx.held[t][i].mu = "pool"

\* C29: the pool mutex is never held across network I/O: Get has released it
\* when it dials, and no pool operation dials, closes or does other I/O on a
\* connection with the mutex held
C29_NoIOUnderPoolMutex ==
    \A t \in PoolTasks : mx.pc[t] \in {"dial", "close"} => ~HoldsPoolMu(t)

\* Get has released the mutex when it dials
GetDialsUnlocked ==
    \A t \in PoolTasks : mx.pc[t] = "dial" => ~HoldsPoolMu(t)


\* C30: every QUIC session whose stream-accept loop is still running has its
\* own entry in the session table; accepting, tearing down or reaping another
\* session never removes or replaces it
C30_LiveSessionHasEntry ==
    \A s \in SessionIds :
        SessionLive(s) /\ ~qs[s].reaped /\ ~qs[s].peerClosed => table[qs[s].addr] = s

\* the table never holds an entry for a session that was never accepted
TableEntriesAccepted ==
    \A a \in QAddrs : table[a] # 0 => qs[table[a]].pc # "none" /\ qs[table[a]].addr = a

====
